---- MODULE Spec2Model ----
(***************************************************************************)
(* Test-case migration pipeline of the Polygon migration application:      *)
(* storage backends (problems/storage_manager.py), the Redis test-case     *)
(* cache and the checker pipeline (problems/polygon_api.py) and the        *)
(* request handler that orchestrates them (problems/views.py).             *)
(*                                                                         *)
(* Object keys, cache keys and identifiers are sequences of tokens: every  *)
(* digit of an identifier is one token and "/" and "_" are tokens, so that *)
(* prefix matches (list by prefix, SCAN by pattern) are computed on the    *)
(* text the code builds and not on an abstract identity.                   *)
(***************************************************************************)
EXTENDS Integers, Sequences, FiniteSets, TLC

\* ------------------------------------------------------------------ bounds
MaxOps == 3
MaxTestNumber == 2

\* ------------------------------------------------------------- text helpers
DigitTok == <<"0", "1", "2", "3", "4", "5", "6", "7", "8", "9">>

RECURSIVE Str(_)
Str(n) == IF n < 10 THEN <<DigitTok[n + 1]>>
          ELSE Str(n \div 10) \o <<DigitTok[(n % 10) + 1]>>

\* the number is written without padding
Format02d_plain(n) == Str(n)

Format02d(n) == IF n < 10 THEN <<"0">> \o Str(n) ELSE Str(n)

StartsWith(s, p) == /\ Len(p) <= Len(s)
                    /\ SubSeq(s, 1, Len(p)) = p

InputKey(db_problem_id, test_number) ==
    <<"test_cases", "/">> \o Str(db_problem_id) \o <<"/">> \o Format02d(test_number)

OutputKey(db_problem_id, test_number) ==
    <<"test_cases", "/">> \o Str(db_problem_id) \o <<"/">> \o Format02d(test_number) \o <<".a">>

ProblemPrefix(problem_id) == <<"test_cases", "/">> \o Str(problem_id) \o <<"/">>

CheckerBinaryPath(problem_id_for_naming) ==
    <<"test_cases", "/">> \o Str(problem_id_for_naming) \o <<"/", "custom_checker">>

CheckerSourcePath(problem_id_for_naming) ==
    <<"test_cases", "/">> \o Str(problem_id_for_naming) \o <<"/", "custom_checker.cpp">>

\* file_path.split('/') : the list of the parts between the "/" tokens
RECURSIVE SplitPath(_)
SplitPath(p) ==
    IF \A i \in 1..Len(p) : p[i] # "/" THEN <<p>>
    ELSE LET i == CHOOSE j \in 1..Len(p) : p[j] = "/" /\ \A k \in 1..(j - 1) : p[k] # "/"
         IN <<SubSeq(p, 1, i - 1)>> \o SplitPath(SubSeq(p, i + 1, Len(p)))

\* os.path.dirname(path): everything before the last "/"
DirName(p) ==
    IF \A i \in 1..Len(p) : p[i] # "/" THEN <<>>
    ELSE LET i == CHOOSE j \in 1..Len(p) : p[j] = "/" /\ \A k \in (j + 1)..Len(p) : p[k] # "/"
         IN SubSeq(p, 1, i - 1)

\* the directory and every ancestor of it (os.makedirs creates them all)
RECURSIVE AncestorDirs(_)
AncestorDirs(d) == IF d = <<>> THEN {<<>>} ELSE {d} \cup AncestorDirs(DirName(d))

\* --------------------------------------------------------------- variables
VARIABLES storageType, storage, ghost, nOps,
          cache, now, storing, cghost, fetched,
          pc, inp, remote, ctx, loc, db, snapshot, start, ops, runs

storageVars == <<storageType, storage, ghost>>
cacheVars == <<cache, now, storing, cghost, fetched>>
orchVars == <<pc, inp, remote, ctx, loc, db, snapshot, start, ops, runs>>
vars == <<storageType, storage, ghost, nOps, cache, now, storing, cghost, fetched,
          pc, inp, remote, ctx, loc, db, snapshot, start, ops, runs>>

StorageTypes == {"local", "s3", "r2", "gdrive", "azure"}

\* Put and Without act on a flat key -> bytes namespace
Put(blobs, key, data) == [k \in DOMAIN blobs \cup {key} |-> IF k = key THEN data ELSE blobs[k]]
Without(blobs, keys) == [k \in DOMAIN blobs \ keys |-> blobs[k]]

NoBlobs == [k \in {} |-> ""]

EmptyStorage == [blobs |-> NoBlobs, dirs |-> {}, drive |-> {}]

Result(st, raised) == [st |-> st, raised |-> raised]

\* where an upload_test_case call raises: nowhere, at the write of the
\* input object, or at the write of the output object
UploadFailures == {"none", "input", "output"}

\* ------------------------------------------------- S3 (and R2) backends
KeysUnder(blobs, prefix) == {k \in DOMAIN blobs : StartsWith(k, prefix)}

\* the except clause logs the error and returns
S3_upload_test_case_swallows(st, container_name, db_problem_id, test_number, input_data, output_data, fail) ==
    LET input_key == InputKey(db_problem_id, test_number)
        st1 == [st EXCEPT !.blobs = Put(@, input_key, input_data)]
        st2 == [st1 EXCEPT !.blobs = Put(@, OutputKey(db_problem_id, test_number), output_data)]
    IN CASE fail = "input" -> Result(st, FALSE)
         [] fail = "output" -> Result(st1, FALSE)
         [] OTHER -> Result(st2, FALSE)

S3_upload_test_case(st, container_name, db_problem_id, test_number, input_data, output_data, fail) ==
    LET input_key == InputKey(db_problem_id, test_number)
        output_key == OutputKey(db_problem_id, test_number)
        st1 == [st EXCEPT !.blobs = Put(@, input_key, input_data)]
        st2 == [st1 EXCEPT !.blobs = Put(@, output_key, output_data)]
    IN CASE fail = "input" -> Result(st, TRUE)
         [] fail = "output" -> Result(st1, TRUE)
         [] OTHER -> Result(st2, FALSE)

\* the listing is made but no object is deleted
S3_empty_blob_lists_only(st, container_name, problem_id, fail, partial) ==
    Result(st, fail)

S3_empty_blob(st, container_name, problem_id, fail, partial) ==
    LET prefix == ProblemPrefix(problem_id)
        objects_to_delete == KeysUnder(st.blobs, prefix)
    IN IF fail THEN Result(st, TRUE)
       ELSE Result([st EXCEPT !.blobs = Without(@, objects_to_delete)], FALSE)

S3_upload_file(st, container_name, file_path, file_data, fail) ==
    IF fail THEN Result(st, TRUE)
    ELSE Result([st EXCEPT !.blobs = Put(@, file_path, file_data)], FALSE)

R2_upload_test_case(st, container_name, db_problem_id, test_number, input_data, output_data, fail) ==
    LET input_key == InputKey(db_problem_id, test_number)
        output_key == OutputKey(db_problem_id, test_number)
        st1 == [st EXCEPT !.blobs = Put(@, input_key, input_data)]
        st2 == [st1 EXCEPT !.blobs = Put(@, output_key, output_data)]
    IN CASE fail = "input" -> Result(st, TRUE)
         [] fail = "output" -> Result(st1, TRUE)
         [] OTHER -> Result(st2, FALSE)

R2_empty_blob(st, container_name, problem_id, fail, partial) ==
    LET prefix == ProblemPrefix(problem_id)
        objects_to_delete == KeysUnder(st.blobs, prefix)
    IN IF fail THEN Result(st, TRUE)
       ELSE Result([st EXCEPT !.blobs = Without(@, objects_to_delete)], FALSE)

R2_upload_file(st, container_name, file_path, file_data, fail) ==
    IF fail THEN Result(st, TRUE)
    ELSE Result([st EXCEPT !.blobs = Put(@, file_path, file_data)], FALSE)

\* ------------------------------------------------------- Azure backend
\* upload_blob(..., overwrite=True) replaces the blob of that name
Azure_upload_test_case(st, container_name, db_problem_id, test_number, input_data, output_data, fail) ==
    LET input_blob_name == InputKey(db_problem_id, test_number)
        output_blob_name == OutputKey(db_problem_id, test_number)
        st1 == [st EXCEPT !.blobs = Put(@, input_blob_name, input_data)]
        st2 == [st1 EXCEPT !.blobs = Put(@, output_blob_name, output_data)]
    IN CASE fail = "input" -> Result(st, TRUE)
         [] fail = "output" -> Result(st1, TRUE)
         [] OTHER -> Result(st2, FALSE)

\* blobs are deleted one at a time: a failure leaves the blobs of `partial`
\* deleted and the rest in place
\* the listing prefix without its closing "/"
Azure_empty_blob_open_prefix(st, container_name, problem_id, fail, partial) ==
    LET prefix == <<"test_cases", "/">> \o Str(problem_id)
        blobs_to_delete == KeysUnder(st.blobs, prefix)
    IN IF fail THEN Result([st EXCEPT !.blobs = Without(@, blobs_to_delete \cap partial)], TRUE)
       ELSE Result([st EXCEPT !.blobs = Without(@, blobs_to_delete)], FALSE)

Azure_empty_blob(st, container_name, problem_id, fail, partial) ==
    LET prefix == ProblemPrefix(problem_id)
        blobs_to_delete == KeysUnder(st.blobs, prefix)
    IN IF fail THEN Result([st EXCEPT !.blobs = Without(@, blobs_to_delete \cap partial)], TRUE)
       ELSE Result([st EXCEPT !.blobs = Without(@, blobs_to_delete)], FALSE)

Azure_upload_file(st, container_name, file_path, file_data, fail) ==
    IF fail THEN Result(st, TRUE)
    ELSE Result([st EXCEPT !.blobs = Put(@, file_path, file_data)], FALSE)

\* ------------------------------------------------------- local backend
\* files are st.blobs (path relative to base_path/container -> content),
\* directories are st.dirs; <<>> is the container directory itself
ProblemDir(problem_id) == <<"test_cases", "/">> \o Str(problem_id)

\* only the input file is written
Local_upload_test_case_input_only(st, container_name, db_problem_id, test_number, input_data, output_data, fail) ==
    LET problem_dir == ProblemDir(db_problem_id)
        input_file == problem_dir \o <<"/">> \o Format02d(test_number)
        st0 == [st EXCEPT !.dirs = @ \cup AncestorDirs(problem_dir)]
        st1 == [st0 EXCEPT !.blobs = Put(@, input_file, input_data)]
    IN CASE fail = "input" -> Result(st0, TRUE)
         [] fail = "output" -> Result(st1, TRUE)
         [] OTHER -> Result(st1, FALSE)

Local_upload_test_case(st, container_name, db_problem_id, test_number, input_data, output_data, fail) ==
    LET problem_dir == ProblemDir(db_problem_id)
        input_file == problem_dir \o <<"/">> \o Format02d(test_number)
        output_file == problem_dir \o <<"/">> \o Format02d(test_number) \o <<".a">>
        st0 == [st EXCEPT !.dirs = @ \cup AncestorDirs(problem_dir)]
        st1 == [st0 EXCEPT !.blobs = Put(@, input_file, input_data)]
        st2 == [st1 EXCEPT !.blobs = Put(@, output_file, output_data)]
    IN CASE fail = "input" -> Result(st0, TRUE)
         [] fail = "output" -> Result(st1, TRUE)
         [] OTHER -> Result(st2, FALSE)

\* shutil.rmtree(problem_dir) when it exists; a failing rmtree has removed
\* the files of `partial` and left the directory
Local_empty_blob(st, container_name, problem_id, fail, partial) ==
    LET problem_dir == ProblemDir(problem_id)
        inside == KeysUnder(st.blobs, problem_dir \o <<"/">>)
        subdirs == {d \in st.dirs : d = problem_dir \/ StartsWith(d, problem_dir \o <<"/">>)}
    IN IF problem_dir \notin st.dirs THEN Result(st, FALSE)
       ELSE IF fail THEN Result([st EXCEPT !.blobs = Without(@, inside \cap partial)], TRUE)
       ELSE Result([st EXCEPT !.blobs = Without(@, inside), !.dirs = @ \ subdirs], FALSE)

Local_upload_file(st, container_name, file_path, file_data, fail) ==
    LET st0 == [st EXCEPT !.dirs = @ \cup AncestorDirs(DirName(file_path))]
    IN IF fail THEN Result(st0, TRUE)
       ELSE Result([st0 EXCEPT !.blobs = Put(@, file_path, file_data)], FALSE)

\* ------------------------------------------------ Google Drive backend
\* st.drive is the set of Drive files: [id, name, parent, folder, data].
\* A create always makes a new file with a new id; names are not unique.
RootFolderId == 0
NoParent == -1

FreshId(drive) == CHOOSE i \in 1..(Cardinality(drive) + 1) : \A f \in drive : f.id # i

DriveFolder(id, name, parent) == [id |-> id, name |-> name, parent |-> parent, folder |-> TRUE, data |-> ""]
DriveFile(id, name, parent, data) == [id |-> id, name |-> name, parent |-> parent, folder |-> FALSE, data |-> data]

\* the folder is created without a search for an existing one
get_or_create_folder_creates(drive, folder_name, parent_id) ==
    LET effective_parent == IF parent_id = NoParent THEN RootFolderId ELSE parent_id
        new_id == FreshId(drive)
    IN [drive |-> drive \cup {DriveFolder(new_id, folder_name, effective_parent)}, id |-> new_id]

\* files().list(q = name and folder mimeType and parent) then files[0], else create
get_or_create_folder(drive, folder_name, parent_id) ==
    LET effective_parent == IF parent_id = NoParent THEN RootFolderId ELSE parent_id
        files == {f \in drive : f.name = folder_name /\ f.folder /\ f.parent = effective_parent}
        new_id == FreshId(drive)
    IN IF files # {}
       THEN [drive |-> drive, id |-> (CHOOSE f \in files : \A g \in files : f.id <= g.id).id]
       ELSE [drive |-> drive \cup {DriveFolder(new_id, folder_name, effective_parent)}, id |-> new_id]

DriveCreate(drive, name, parent, data) == drive \cup {DriveFile(FreshId(drive), name, parent, data)}

\* files().delete(fileId) removes the file and, for a folder, all its
\* descendants.  The id of a deleted file is never issued again: the file
\* stays in the set as a nameless entry outside every folder.
Deleted(id) == [id |-> id, name |-> <<>>, parent |-> NoParent, folder |-> FALSE, data |-> ""]

RECURSIVE DriveSubtree(_, _)
DriveSubtree(drive, ids) ==
    LET more == {f.id : f \in {g \in drive : g.parent \in ids}} \ ids
    IN IF more = {} THEN ids ELSE DriveSubtree(drive, ids \cup more)

DriveDelete(drive, ids) ==
    {IF f.id \in DriveSubtree(drive, ids) THEN Deleted(f.id) ELSE f : f \in drive}

GDrive_upload_test_case(st, container_name, db_problem_id, test_number, input_data, output_data, fail) ==
    LET c == get_or_create_folder(st.drive, container_name, NoParent)
        t == get_or_create_folder(c.drive, <<"test_cases">>, c.id)
        p == get_or_create_folder(t.drive, Str(db_problem_id), t.id)
        input_filename == Format02d(test_number)
        output_filename == Format02d(test_number) \o <<".a">>
        d1 == DriveCreate(p.drive, input_filename, p.id, input_data)
        d2 == DriveCreate(d1, output_filename, p.id, output_data)
    IN CASE fail = "input" -> Result([st EXCEPT !.drive = p.drive], TRUE)
         [] fail = "output" -> Result([st EXCEPT !.drive = d1], TRUE)
         [] OTHER -> Result([st EXCEPT !.drive = d2], FALSE)

\* deletes every child of the test_cases folder whose name is the problem id
GDrive_empty_blob(st, container_name, problem_id, fail, partial) ==
    LET c == get_or_create_folder(st.drive, container_name, NoParent)
        t == get_or_create_folder(c.drive, <<"test_cases">>, c.id)
        files == {f.id : f \in {g \in t.drive : g.name = Str(problem_id) /\ g.parent = t.id}}
    IN IF fail THEN Result([st EXCEPT !.drive = DriveDelete(t.drive, files \cap partial)], TRUE)
       ELSE Result([st EXCEPT !.drive = DriveDelete(t.drive, files)], FALSE)

RECURSIVE DriveMakeFolders(_, _, _)
DriveMakeFolders(drive, parts, parent_id) ==
    IF parts = <<>> THEN [drive |-> drive, id |-> parent_id]
    ELSE LET r == get_or_create_folder(drive, Head(parts), parent_id)
         IN DriveMakeFolders(r.drive, Tail(parts), r.id)

GDrive_upload_file(st, container_name, file_path, file_data, fail) ==
    LET c == get_or_create_folder(st.drive, container_name, NoParent)
        parts == SplitPath(file_path)
        r == DriveMakeFolders(c.drive, SubSeq(parts, 1, Len(parts) - 1), c.id)
        filename == parts[Len(parts)]
    IN IF fail THEN Result([st EXCEPT !.drive = r.drive], TRUE)
       ELSE Result([st EXCEPT !.drive = DriveCreate(r.drive, filename, r.id, file_data)], FALSE)

\* ------------------------------------------- the polymorphic contract
\* get_storage_manager(storage_type) selects the implementation
upload_test_case(type, st, container_name, db_problem_id, test_number, input_data, output_data, fail) ==
    CASE type = "local" -> Local_upload_test_case(st, container_name, db_problem_id, test_number, input_data, output_data, fail)
      [] type = "gdrive" -> GDrive_upload_test_case(st, container_name, db_problem_id, test_number, input_data, output_data, fail)
      [] type = "r2" -> R2_upload_test_case(st, container_name, db_problem_id, test_number, input_data, output_data, fail)
      [] type = "s3" -> S3_upload_test_case(st, container_name, db_problem_id, test_number, input_data, output_data, fail)
      [] type = "azure" -> Azure_upload_test_case(st, container_name, db_problem_id, test_number, input_data, output_data, fail)

empty_blob(type, st, container_name, problem_id, fail, partial) ==
    CASE type = "local" -> Local_empty_blob(st, container_name, problem_id, fail, partial)
      [] type = "gdrive" -> GDrive_empty_blob(st, container_name, problem_id, fail, partial)
      [] type = "r2" -> R2_empty_blob(st, container_name, problem_id, fail, partial)
      [] type = "s3" -> S3_empty_blob(st, container_name, problem_id, fail, partial)
      [] type = "azure" -> Azure_empty_blob(st, container_name, problem_id, fail, partial)

upload_file(type, st, container_name, file_path, file_data, fail) ==
    CASE type = "local" -> Local_upload_file(st, container_name, file_path, file_data, fail)
      [] type = "gdrive" -> GDrive_upload_file(st, container_name, file_path, file_data, fail)
      [] type = "r2" -> R2_upload_file(st, container_name, file_path, file_data, fail)
      [] type = "s3" -> S3_upload_file(st, container_name, file_path, file_data, fail)
      [] type = "azure" -> Azure_upload_file(st, container_name, file_path, file_data, fail)

\* ------------------------------------------ what a backend holds (views)
ContainerName == <<"bucket">>

\* the Drive folders that are the problem's prefix test_cases/{problem_id}/
DriveProblemFolders(drive, problem_id) ==
    {p.id : p \in {f \in drive : /\ f.folder /\ f.name = Str(problem_id)
                                 /\ \E t \in drive : /\ t.id = f.parent /\ t.folder /\ t.name = <<"test_cases">>
                                                     /\ \E c \in drive : /\ c.id = t.parent /\ c.folder
                                                                         /\ c.name = ContainerName
                                                                         /\ c.parent = RootFolderId}}

\* the objects under test_cases/{problem_id}/ : [id, name, data], one per
\* stored object (a backend that duplicates has several of one name)
ObjectsUnder(type, st, problem_id) ==
    IF type = "gdrive"
    THEN {[id |-> <<Str(f.id)>>, name |-> f.name, data |-> f.data] :
             f \in {g \in st.drive : ~g.folder /\ g.parent \in DriveProblemFolders(st.drive, problem_id)}}
    ELSE {[id |-> <<k>>, name |-> SubSeq(k, Len(ProblemPrefix(problem_id)) + 1, Len(k)), data |-> st.blobs[k]] :
             k \in KeysUnder(st.blobs, ProblemPrefix(problem_id))}

ObjectsNamed(type, st, problem_id, name) == {o \in ObjectsUnder(type, st, problem_id) : o.name = name}

NamePairs(type, st, problem_id) == {<<o.name, o.data>> : o \in ObjectsUnder(type, st, problem_id)}

\* ------------------------------------------------------ test-case records
\* a test case as get_all_test_cases builds it
TC(index, input, output, is_sample) ==
    [index |-> index, manual |-> FALSE, is_sample |-> is_sample, description |-> "",
     input |-> input, output |-> output]

\* ------------------------------------------------------------ Redis cache
\* cache: key -> [val, exp]; a key is readable while now < exp
ExpiryHours == <<1, 2>>
ExpirySeconds(expiry_hours) == (expiry_hours[1] * 3600) \div expiry_hours[2]

RECURSIVE ParseInt(_)
ParseInt(toks) ==
    IF toks = <<>> THEN 0
    ELSE 10 * ParseInt(SubSeq(toks, 1, Len(toks) - 1))
         + ((CHOOSE d \in 1..10 : DigitTok[d] = toks[Len(toks)]) - 1)

CachePrefix(polygon_id) == <<"polygon_migration_test_cases", "_">> \o polygon_id
CountKey(polygon_id) == CachePrefix(polygon_id) \o <<"_", "count">>
TestKey(polygon_id, idx) == CachePrefix(polygon_id) \o <<"_", "test", "_">> \o Str(idx)

json_dumps(d) == [json |-> d]
json_loads(x) == x.json

setex(c, key, seconds, value, t) == Put(c, key, [val |-> value, exp |-> t + seconds])
redis_get(c, key, t) == IF key \in DOMAIN c /\ t < c[key].exp THEN <<c[key].val>> ELSE <<>>

\* the count record written after the test records
StoreWrites_count_last(polygon_id, test_cases) ==
    [idx \in 1..Len(test_cases) |->
        [key |-> TestKey(polygon_id, idx),
         value |-> json_dumps([index |-> test_cases[idx].index,
                               input |-> test_cases[idx].input,
                               output |-> test_cases[idx].output,
                               description |-> test_cases[idx].description,
                               is_sample |-> test_cases[idx].is_sample])]] \o
    <<[key |-> CountKey(polygon_id), value |-> Str(Len(test_cases))]>>

\* the setex calls of store_test_cases_in_redis, in the order it issues them
StoreWrites(polygon_id, test_cases) ==
    <<[key |-> CountKey(polygon_id), value |-> Str(Len(test_cases))]>> \o
    [idx \in 1..Len(test_cases) |->
        [key |-> TestKey(polygon_id, idx),
         value |-> json_dumps([index |-> test_cases[idx].index,
                               input |-> test_cases[idx].input,
                               output |-> test_cases[idx].output,
                               description |-> test_cases[idx].description,
                               is_sample |-> test_cases[idx].is_sample])]]

RECURSIVE ApplyWrites(_, _, _, _, _)
ApplyWrites(c, writes, n, seconds, t) ==
    IF n = 0 THEN c
    ELSE setex(ApplyWrites(c, writes, n - 1, seconds, t), writes[n].key, seconds, writes[n].value, t)

\* the whole call at one instant; `done` setex calls complete before an
\* exception (connection, ping or a write) ends it; the exception is logged
\* and swallowed, so the call returns normally in every case
store_test_cases_in_redis(c, t, polygon_id, test_cases, expiry_hours, done) ==
    ApplyWrites(c, StoreWrites(polygon_id, test_cases), done, ExpirySeconds(expiry_hours), t)

Hit(cases) == [hit |-> TRUE, cases |-> cases]
Miss == [hit |-> FALSE, cases |-> <<>>]

RECURSIVE ReadCases(_, _, _, _)
ReadCases(c, t, polygon_id, count) ==
    IF count <= 0 THEN <<>>
    ELSE LET test_case_data == redis_get(c, TestKey(polygon_id, count), t)
         IN ReadCases(c, t, polygon_id, count - 1) \o
            (IF test_case_data # <<>> THEN <<json_loads(test_case_data[1])>> ELSE <<>>)

\* a short entry is answered by None
get_test_cases_from_redis_strict(c, t, polygon_id, fail) ==
    LET count == redis_get(c, CountKey(polygon_id), t)
    IN IF fail \/ count = <<>> THEN Miss
       ELSE IF Len(ReadCases(c, t, polygon_id, ParseInt(count[1]))) # ParseInt(count[1]) THEN Miss
       ELSE Hit(ReadCases(c, t, polygon_id, ParseInt(count[1])))

\* range(1, count) in place of range(1, count + 1)
get_test_cases_from_redis_short(c, t, polygon_id, fail) ==
    LET count == redis_get(c, CountKey(polygon_id), t)
    IN IF fail \/ count = <<>> THEN Miss
       ELSE Hit(ReadCases(c, t, polygon_id, ParseInt(count[1]) - 1))

\* None (a miss) when Redis fails or the count key is absent
get_test_cases_from_redis(c, t, polygon_id, fail) ==
    LET count == redis_get(c, CountKey(polygon_id), t)
    IN IF fail \/ count = <<>> THEN Miss
       ELSE Hit(ReadCases(c, t, polygon_id, ParseInt(count[1])))

\* scan_iter(prefix*) and delete each; a failure leaves only the keys of
\* `partial` deleted; it is logged and swallowed
clear_test_cases_from_redis(c, polygon_id, fail, partial) ==
    LET matching == {k \in DOMAIN c : StartsWith(k, CachePrefix(polygon_id))}
    IN IF fail THEN Without(c, matching \cap partial) ELSE Without(c, matching)

delete_problem_test_case_cache(c, db_problem_id, fail, partial) ==
    LET pattern == <<"oj_dev_with_redis_storage_test_cases", "_">> \o Str(db_problem_id)
        matching == {k \in DOMAIN c : StartsWith(k, pattern)}
    IN IF fail THEN Without(c, matching \cap partial) ELSE Without(c, matching)

\* Redis drops a key when its time to live is over
Expire(c, t) == Without(c, {k \in DOMAIN c : c[k].exp <= t})

\* ---------------------------------------------------- remote API (Polygon)
\* the except clause leaves the input that was fetched before the failure
get_all_test_cases_keeps_input(tests, failed) ==
    [i \in 1..Len(tests) |->
        [index |-> tests[i].index, manual |-> tests[i].manual, is_sample |-> tests[i].is_sample,
         description |-> tests[i].description, input |-> tests[i].input,
         output |-> IF i \in failed THEN "" ELSE tests[i].output]]

\* get_all_test_cases: one record per listed test; a failure of the input
\* or output call of a test leaves that test with empty input and output.
\* `failed` is the set of positions whose fetch fails.
get_all_test_cases(tests, failed) ==
    [i \in 1..Len(tests) |->
        IF i \in failed
        THEN [index |-> tests[i].index, manual |-> tests[i].manual, is_sample |-> tests[i].is_sample,
              description |-> tests[i].description, input |-> "", output |-> ""]
        ELSE [index |-> tests[i].index, manual |-> tests[i].manual, is_sample |-> tests[i].is_sample,
              description |-> tests[i].description, input |-> tests[i].input, output |-> tests[i].output]]

\* the positions whose fetch fails: any subset
FetchFailures(tests) == SUBSET (1..Len(tests))

\* --------------------------------------------------------------- database
\* db.problem is <<>> or <<row>> (the Problem of the polygon id), db.tags
\* its extra_tags, db.tagTable the ProblemTag rows, db.samples and db.tests
\* the SampleTestCase and ProblemTestCase rows in creation order
EmptyDb == [problem |-> <<>>, tags |-> {}, tagTable |-> {}, samples |-> <<>>, tests |-> <<>>]

FirstProblemId == 1

\* str.rstrip() / str.strip() on the contents and tag names used
RStrip(x) ==
    CASE x = "5\n" -> "5" [] x = "6\n" -> "6" [] x = "7\n" -> "7" [] x = "3\n" -> "3"
      [] x = "10\n" -> "10" [] x = "12\n" -> "12" [] x = "14\n" -> "14"
      [] x = "9\n" -> "9" [] x = "18\n" -> "18" [] x = "8\n" -> "8" [] x = "16\n" -> "16"
      [] x = "\n" -> "" [] x = " " -> "" [] OTHER -> x

\* Problem.objects.filter(polygon_id=...).first(), then save() or create()
UpsertProblem(d, difficulty, checker_type, test_case_count) ==
    LET problem_obj == d.problem
        id == IF problem_obj # <<>> THEN problem_obj[1].id ELSE FirstProblemId
    IN [d EXCEPT !.problem = <<[id |-> id, difficulty |-> difficulty,
                                checker_type |-> checker_type,
                                test_case_count |-> test_case_count]>>]

\* the tags of the request are added to those the problem has
ReplaceTags_merges(d, selected_tags, new_tag) ==
    LET chosen == {RStrip(selected_tags[i]) : i \in {j \in 1..Len(selected_tags) : RStrip(selected_tags[j]) # ""}}
        added == chosen \cup (IF new_tag # "" THEN {new_tag} ELSE {})
    IN [d EXCEPT !.tags = @ \cup added, !.tagTable = @ \cup added]

\* extra_tags.clear(), then get_or_create and add every non-blank selected
\* tag, then the new tag when given
ReplaceTags(d, selected_tags, new_tag) ==
    LET chosen == {RStrip(selected_tags[i]) : i \in {j \in 1..Len(selected_tags) : RStrip(selected_tags[j]) # ""}}
        added == chosen \cup (IF new_tag # "" THEN {new_tag} ELSE {})
    IN [d EXCEPT !.tags = added, !.tagTable = @ \cup added]

\* positions of the rows in ascending order value (order_by('order'))
RECURSIVE SortedByOrder(_, _)
SortedByOrder(rows, left) ==
    IF left = {} THEN <<>>
    ELSE LET m == CHOOSE i \in left : \A j \in left :
                      rows[i].order < rows[j].order \/ (rows[i].order = rows[j].order /\ i <= j)
         IN <<m>> \o SortedByOrder(rows, left \ {m})

\* the loop of the sample upsert: idx counts the new records, order counts
\* the records written
RECURSIVE SampleLoop(_, _, _, _, _)
SampleLoop(rows, existing, sample_tests, k, order) ==
    IF k > Len(sample_tests) THEN rows
    ELSE LET input_data == RStrip(sample_tests[k].input)
             output_data == RStrip(sample_tests[k].output)
             row == [input |-> input_data, output |-> output_data, order |-> order]
         IN IF input_data # "" /\ output_data # ""
            THEN IF k - 1 < Len(existing)
                 THEN SampleLoop([rows EXCEPT ![existing[k]] = row], existing, sample_tests, k + 1, order + 1)
                 ELSE SampleLoop(Append(rows, row), existing, sample_tests, k + 1, order + 1)
            ELSE SampleLoop(rows, existing, sample_tests, k + 1, order)

UpsertSamples(d, test_cases) ==
    LET sample_tests == SelectSeq(test_cases, LAMBDA t : t.is_sample)
        existing_sample_cases == SortedByOrder(d.samples, DOMAIN d.samples)
    IN [d EXCEPT !.samples = SampleLoop(@, existing_sample_cases, sample_tests, 1, 1)]

RECURSIVE TestLoop(_, _, _, _, _)
TestLoop(rows, existing, test_cases, k, order) ==
    IF k > Len(test_cases) THEN rows
    ELSE LET input_data == RStrip(test_cases[k].input)
             output_data == RStrip(test_cases[k].output)
             row == [input |-> input_data, output |-> output_data,
                     is_sample |-> test_cases[k].is_sample,
                     description |-> test_cases[k].description, order |-> order]
         IN IF input_data # "" /\ output_data # ""
            THEN IF k - 1 < Len(existing)
                 THEN TestLoop([rows EXCEPT ![existing[k]] = row], existing, test_cases, k + 1, order + 1)
                 ELSE TestLoop(Append(rows, row), existing, test_cases, k + 1, order + 1)
            ELSE TestLoop(rows, existing, test_cases, k + 1, order)

\* the rows of the problem are deleted and created anew
UpsertTestCases_recreates(d, test_cases) ==
    [d EXCEPT !.tests = TestLoop(<<>>, <<>>, test_cases, 1, 1)]

UpsertTestCases(d, test_cases) ==
    LET existing_test_cases == SortedByOrder(d.tests, DOMAIN d.tests)
    IN [d EXCEPT !.tests = TestLoop(@, existing_test_cases, test_cases, 1, 1)]

\* the writes are kept when the block is left by an exception
Rollback_keeps(saved, current) == current

\* leaving `with transaction.atomic()` by an exception restores the
\* database of the moment the block was entered
Rollback(saved, current) == saved

\* -------------------------------------------- checker pipeline (storage)
\* what the steps of upload_custom_checker_to_storage can yield for a
\* custom checker: the checker call fails (treated as no custom checker),
\* no source is fetched, compile_custom_checker raises while writing the
\* source file, it returns None and the source upload succeeds or fails,
\* the binary cannot be read, the binary upload succeeds or fails
CheckerOutcomes ==
    {"info_fail", "no_source", "compile_raise", "src_ok", "src_fail",
     "bin_read_fail", "bin_ok", "bin_fail"}

IsCustomChecker(checker_info) == checker_info # "" /\ checker_info # "std::ncmp.cpp"

\* problem_id_for_naming = db_problem_id if db_problem_id is not None else problem_id
NamingId(db_problem_id, problem_id) == IF db_problem_id # 0 THEN db_problem_id ELSE ParseInt(problem_id)

upload_custom_checker_to_storage(type, st, checker_info, container_name, naming, outcome) ==
    IF ~IsCustomChecker(checker_info) \/ outcome = "info_fail" \/ outcome = "no_source"
    THEN Result(st, FALSE)
    ELSE CASE outcome = "compile_raise" -> Result(st, TRUE)
           [] outcome = "src_ok" ->
                Result(upload_file(type, st, container_name, CheckerSourcePath(naming), "src", FALSE).st, FALSE)
           [] outcome = "src_fail" ->
                Result(upload_file(type, st, container_name, CheckerSourcePath(naming), "src", TRUE).st, FALSE)
           [] outcome = "bin_read_fail" -> Result(st, FALSE)
           [] outcome = "bin_ok" ->
                Result(upload_file(type, st, container_name, CheckerBinaryPath(naming), "bin", FALSE).st, FALSE)
           [] outcome = "bin_fail" ->
                Result(upload_file(type, st, container_name, CheckerBinaryPath(naming), "bin", TRUE).st, FALSE)

\* ------------------------------------------------ request handler state
PolygonId == <<"7">>

Log(op, id) == [op |-> op, id |-> id]

NoInp == [azure |-> FALSE, to_db |-> FALSE, tc_to_db |-> FALSE, difficulty |-> "",
          tags |-> <<>>, new_tag |-> ""]
NoRemote == [tests |-> <<>>, checker |-> "std::ncmp.cpp"]
NoCtx == [error |-> "", success |-> "", db_success |-> "", info |-> ""]
NoLoc == [redisUp |-> TRUE, problem_id |-> 0, custom_checker_info |-> FALSE,
          test_cases |-> <<>>, hit |-> FALSE, idx |-> 0, purged |-> FALSE, migrated |-> FALSE,
          azure_blob_uploaded |-> FALSE, azure_blob_problem_id |-> 0,
          checker_type |-> "", test_case_count |-> 0,
          raised |-> FALSE, dirty |-> FALSE, outcome |-> "none"]

\* the two concurrent runs of migrate_to_cloud_storage: where each one is,
\* the list it resolved, the checker it saw, and (Drive) the folder it
\* resolved for the upload it is in the middle of
Runs == {1, 2}
NoRuns == [r \in Runs |-> [pc |-> "idle", idx |-> 0, folder |-> NoParent,
                            test_cases |-> <<>>, checker |-> ""]]

OrchIdle ==
    /\ runs = NoRuns
    /\ pc = "idle"
    /\ inp = NoInp
    /\ remote = NoRemote
    /\ ctx = NoCtx
    /\ loc = NoLoc
    /\ db = EmptyDb
    /\ snapshot = EmptyDb
    /\ start = [storage |-> EmptyStorage, cache |-> NoBlobs]
    /\ ops = <<>>

\* `or` in place of `and`
ShouldUpload_either(test) == test.input # "" \/ test.output # ""

\* the test in migrate_to_cloud_storage that decides an upload
ShouldUpload(test) == test.input # "" /\ test.output # ""

\* the record check is skipped
PreconditionFails_never(problem_obj) == FALSE

\* `if not problem_obj` of the storage migration branch
PreconditionFails(problem_obj) == problem_obj = <<>>

\* the setex calls a store completes: all of them, or only the count
\* record when a write fails, or none when Redis is unreachable
StoreDone(test_cases, up) == IF up THEN {Len(test_cases) + 1, 1} ELSE {0}

\* the cache-then-API policy: get_test_cases_from_redis, and on None
\* get_all_test_cases (which raises when the test listing fails) followed
\* by store_test_cases_in_redis: the set of possible results
ApiThenStore(c, t, polygon_id, tests, up) ==
    LET api == Log("api", <<"problem.tests">> \o polygon_id)
        sto == Log("cache_store", CachePrefix(polygon_id))
    IN {[raised |-> TRUE, cases |-> <<>>, cache |-> c, hit |-> FALSE, log |-> <<api>>]}
       \cup {[raised |-> FALSE, cases |-> get_all_test_cases(tests, failed),
               cache |-> store_test_cases_in_redis(c, t, polygon_id, get_all_test_cases(tests, failed),
                                                   ExpiryHours, done),
               hit |-> FALSE, log |-> <<api, sto>>] :
                 failed \in FetchFailures(tests), done \in StoreDone(tests, up)}

\* an unreachable Redis makes the fetch raise
CacheThenApi_propagates(c, t, polygon_id, tests, up) ==
    LET got == get_test_cases_from_redis(c, t, polygon_id, ~up)
        get == Log("cache_get", CachePrefix(polygon_id))
    IN IF ~up
       THEN {[raised |-> TRUE, cases |-> <<>>, cache |-> c, hit |-> FALSE, log |-> <<get>>]}
       ELSE IF got.hit
       THEN {[raised |-> FALSE, cases |-> got.cases, cache |-> c, hit |-> TRUE, log |-> <<get>>]}
       ELSE {[r EXCEPT !.log = <<get>> \o @] : r \in ApiThenStore(c, t, polygon_id, tests, up)}

\* the cache-then-API policy: get_test_cases_from_redis, and on None the
\* fetch from the API and the store
CacheThenApi(c, t, polygon_id, tests, up) ==
    LET got == get_test_cases_from_redis(c, t, polygon_id, ~up)
        get == Log("cache_get", CachePrefix(polygon_id))
    IN IF got.hit
       THEN {[raised |-> FALSE, cases |-> got.cases, cache |-> c, hit |-> TRUE, log |-> <<get>>]}
       ELSE {[r EXCEPT !.log = <<get>> \o @] : r \in ApiThenStore(c, t, polygon_id, tests, up)}

\* ===================================================================
\* StorageSpec: any sequence of contract calls on one backend
\* ===================================================================
ProblemKeys == {1, 12}

\* the (input, output) contents a call may carry
TestData == {<<"5\n", "10\n">>, <<"6\n", "12\n">>}
FileData == {"bin", "src"}

\* ghost[k] records, for problem key k, what the calls did since the last
\* completed empty_blob: purged (one has completed), prior (it found
\* objects to remove), written (the <<name, data>> pairs written since),
\* ups[n] (completed upload_test_case calls for n) and last[n] (the data of
\* the last one)
GhostInit == [k \in ProblemKeys |->
                [purged |-> FALSE, prior |-> FALSE, written |-> {},
                 ups |-> [n \in 1..MaxTestNumber |-> 0],
                 last |-> [n \in 1..MaxTestNumber |-> <<>>]]]

WrittenByUpload(n, d, fail) ==
    CASE fail = "input" -> {}
      [] fail = "output" -> {<<Format02d(n), d[1]>>}
      [] OTHER -> {<<Format02d(n), d[1]>>, <<Format02d(n) \o <<".a">>, d[2]>>}

PartialChoices(type, st, k) ==
    {{}} \cup {{x} : x \in (IF type = "gdrive" THEN DriveProblemFolders(st.drive, k)
                            ELSE KeysUnder(st.blobs, ProblemPrefix(k)))}

NoStore == [active |-> FALSE, ref |-> <<>>, cases |-> <<>>, next |-> 0, fresh |-> FALSE]
NoFetch == [done |-> FALSE]

CacheIdle ==
    /\ cache = NoBlobs
    /\ now = 0
    /\ storing = NoStore
    /\ cghost = <<>>
    /\ fetched = NoFetch

StorageInit ==
    /\ storageType \in StorageTypes
    /\ storage = EmptyStorage
    /\ ghost = GhostInit
    /\ nOps = 0
    /\ CacheIdle
    /\ OrchIdle

SUploadTestCase ==
    \E k \in ProblemKeys, n \in 1..MaxTestNumber, d \in TestData, fail \in UploadFailures :
        LET r == upload_test_case(storageType, storage, ContainerName, k, n, d[1], d[2], fail)
        IN /\ nOps < MaxOps
           /\ storage' = r.st
           /\ ghost' = [ghost EXCEPT ![k].written = @ \cup WrittenByUpload(n, d, fail),
                                      ![k].ups[n] = IF r.raised THEN 0 ELSE IF @ < 2 THEN @ + 1 ELSE @,
                                      ![k].last[n] = IF r.raised THEN <<>> ELSE d]
           /\ nOps' = nOps + 1
           /\ UNCHANGED <<storageType, cacheVars, orchVars>>

SEmptyBlob ==
    \E k \in ProblemKeys, fail \in BOOLEAN :
      \E partial \in (IF fail THEN PartialChoices(storageType, storage, k) ELSE {{}}) :
        LET r == empty_blob(storageType, storage, ContainerName, k, fail, partial)
        IN /\ nOps < MaxOps
           /\ storage' = r.st
           /\ ghost' = [ghost EXCEPT ![k] =
                          IF r.raised THEN [@ EXCEPT !.purged = FALSE]
                          ELSE [purged |-> TRUE,
                                prior |-> ObjectsUnder(storageType, storage, k) # {},
                                written |-> {},
                                ups |-> [n \in 1..MaxTestNumber |-> 0],
                                last |-> [n \in 1..MaxTestNumber |-> <<>>]]]
           /\ nOps' = nOps + 1
           /\ UNCHANGED <<storageType, cacheVars, orchVars>>

SUploadFile ==
    \E k \in ProblemKeys, path \in {"bin", "src"}, fail \in BOOLEAN :
        LET file_path == IF path = "bin" THEN CheckerBinaryPath(k) ELSE CheckerSourcePath(k)
            r == upload_file(storageType, storage, ContainerName, file_path, path, fail)
        IN /\ nOps < MaxOps
           /\ storage' = r.st
           /\ ghost' = [ghost EXCEPT ![k].written =
                          IF r.raised THEN @ ELSE @ \cup {<<<<file_path[Len(file_path)]>>, path>>}]
           /\ nOps' = nOps + 1
           /\ UNCHANGED <<storageType, cacheVars, orchVars>>

StorageNext == SUploadTestCase \/ SEmptyBlob \/ SUploadFile

StorageSpec == StorageInit /\ [][StorageNext]_vars

\* C7: once empty_blob(container, k) has completed, the objects under
\* test_cases/{k}/ are exactly those written by the calls made since: every
\* object there was written since the purge, and every name written since
\* the purge is there; nothing of an earlier run is left.
C7_PurgeThenUploadExact ==
    \A k \in ProblemKeys :
        ghost[k].purged =>
            /\ NamePairs(storageType, storage, k) \subseteq ghost[k].written
            /\ {pr[1] : pr \in NamePairs(storageType, storage, k)} = {pr[1] : pr \in ghost[k].written}

C7_Witness ==
    \E k \in ProblemKeys :
        /\ ghost[k].purged /\ ghost[k].prior
        /\ ghost[k].written # {}
        /\ ObjectsUnder(storageType, storage, k) # {}

\* C8: on every backend, when upload_test_case has completed twice for the
\* same (container, problem key, test number), there is exactly one input
\* object and exactly one output object of that number, holding the data
\* of the last call.
C8_ReuploadReplaces ==
    \A k \in ProblemKeys, n \in 1..MaxTestNumber :
        ghost[k].ups[n] >= 2 =>
            /\ {o.data : o \in ObjectsNamed(storageType, storage, k, Format02d(n))} = {ghost[k].last[n][1]}
            /\ Cardinality(ObjectsNamed(storageType, storage, k, Format02d(n))) = 1
            /\ {o.data : o \in ObjectsNamed(storageType, storage, k, Format02d(n) \o <<".a">>)} = {ghost[k].last[n][2]}
            /\ Cardinality(ObjectsNamed(storageType, storage, k, Format02d(n) \o <<".a">>)) = 1

\* ===================================================================
\* CacheSpec: stores, fetches and invalidations on the Redis cache while
\* time passes.  A store issues its setex calls one at a time.
\* ===================================================================
MaxCacheOps == 4
MaxTicks == 3
\* the clock advances by half the lifetime of an entry
TickSeconds == ExpirySeconds(ExpiryHours) \div 2

CacheRefs == {<<"7">>}

CaseLists ==
    { <<>>,
      <<TC(1, "5\n", "10\n", TRUE)>>,
      <<TC(1, "6\n", "12\n", TRUE), TC(2, "7\n", "14\n", FALSE)>>,
      <<TC(1, "5\n", "10\n", TRUE), TC(2, "", "3\n", FALSE), TC(3, "6\n", "12\n", FALSE)>> }

\* the fields of a test case that a cache record carries
CacheFields(tc) ==
    [index |-> tc.index, input |-> tc.input, output |-> tc.output,
     description |-> tc.description, is_sample |-> tc.is_sample]

NoEntry == [valid |-> FALSE, complete |-> FALSE, cases |-> <<>>, t0 |-> 0, t1 |-> 0, hitSeen |-> FALSE]

CacheInit ==
    /\ cache = NoBlobs
    /\ now = 0
    /\ storing = NoStore
    /\ cghost = [r \in CacheRefs |-> NoEntry]
    /\ fetched = NoFetch
    /\ nOps = 0
    /\ storageType = "local"
    /\ storage = EmptyStorage
    /\ ghost = GhostInit
    /\ OrchIdle

\* connection, ping and the setex of the count record
CStoreBegin ==
    \E ref \in CacheRefs, cases \in CaseLists, fail \in BOOLEAN :
        LET w == StoreWrites(ref, cases)
        IN /\ nOps < MaxCacheOps
           /\ ~storing.active
           /\ IF fail
              THEN UNCHANGED <<cache, storing, cghost>>
              ELSE /\ cache' = setex(cache, w[1].key, ExpirySeconds(ExpiryHours), w[1].value, now)
                   /\ storing' = IF Len(w) = 1 THEN NoStore
                                  ELSE [active |-> TRUE, ref |-> ref, cases |-> cases, next |-> 2,
                                        fresh |-> ~\E k \in DOMAIN cache :
                                                      StartsWith(k, CachePrefix(ref))]
                   /\ cghost' = [cghost EXCEPT ![ref] =
                                    [valid |-> TRUE, complete |-> Len(w) = 1, cases |-> cases,
                                     t0 |-> now, t1 |-> now, hitSeen |-> FALSE]]
           /\ nOps' = nOps + 1
           /\ UNCHANGED <<now, fetched, storageVars, orchVars>>

\* the next setex of the running store, or the exception that ends it
CStoreStep ==
    \E fail \in BOOLEAN :
        LET w == StoreWrites(storing.ref, storing.cases)
            i == storing.next
        IN /\ storing.active
           /\ IF fail
              THEN /\ storing' = NoStore
                   /\ cghost' = [cghost EXCEPT ![storing.ref].valid = FALSE]
                   /\ UNCHANGED cache
              ELSE /\ cache' = setex(cache, w[i].key, ExpirySeconds(ExpiryHours), w[i].value, now)
                   /\ storing' = IF i = Len(w) THEN NoStore ELSE [storing EXCEPT !.next = i + 1]
                   /\ cghost' = [cghost EXCEPT ![storing.ref].complete = (i = Len(w)),
                                                ![storing.ref].t1 = now]
           /\ UNCHANGED <<now, fetched, nOps, storageVars, orchVars>>

CFetch ==
    \E ref \in CacheRefs, fail \in BOOLEAN :
        LET res == get_test_cases_from_redis(cache, now, ref, fail)
        IN /\ nOps < MaxCacheOps
           /\ fetched' = [done |-> TRUE, ref |-> ref, res |-> res, at |-> now, fail |-> fail,
                           entry |-> cghost[ref], cache |-> cache,
                           during |-> storing.active /\ storing.ref = ref /\ storing.fresh]
           /\ cghost' = [cghost EXCEPT ![ref].hitSeen =
                            @ \/ (cghost[ref].valid /\ cghost[ref].complete /\ res.hit)]
           /\ nOps' = nOps + 1
           /\ UNCHANGED <<cache, now, storing, storageVars, orchVars>>

CClear ==
    \E ref \in CacheRefs, fail \in BOOLEAN :
      \E partial \in (IF fail THEN {{}} \cup {{k} : k \in DOMAIN cache} ELSE {{}}) :
        /\ nOps < MaxCacheOps
        /\ cache' = clear_test_cases_from_redis(cache, ref, fail, partial)
        /\ cghost' = [r \in CacheRefs |->
                         IF StartsWith(CachePrefix(r), CachePrefix(ref))
                         THEN [cghost[r] EXCEPT !.valid = FALSE] ELSE cghost[r]]
        /\ nOps' = nOps + 1
        /\ UNCHANGED <<now, storing, fetched, storageVars, orchVars>>

CTick ==
    /\ now < MaxTicks * TickSeconds
    /\ now' = now + TickSeconds
    /\ cache' = Expire(cache, now')
    /\ UNCHANGED <<storing, cghost, fetched, nOps, storageVars, orchVars>>

CacheNext == CStoreBegin \/ CStoreStep \/ CFetch \/ CClear \/ CTick

CacheSpec == CacheInit /\ [][CacheNext]_vars

\* C10: a fetch(ref) made after a store(ref, cases, ttl) has completed, with
\* no other write or invalidation of ref in between and Redis reachable,
\* returns the stored cases in order (index, input, output, description,
\* is_sample of every record) when less than the TTL has passed since the
\* store began, and a miss when the TTL has passed since the store ended.
C10_CacheRoundTrip ==
    (fetched.done /\ ~fetched.fail /\ fetched.entry.valid /\ fetched.entry.complete) =>
        /\ fetched.at < fetched.entry.t0 + ExpirySeconds(ExpiryHours) =>
               /\ fetched.res.hit
               /\ fetched.res.cases = [i \in 1..Len(fetched.entry.cases) |-> CacheFields(fetched.entry.cases[i])]
        /\ fetched.at >= fetched.entry.t1 + ExpirySeconds(ExpiryHours) => ~fetched.res.hit

\* a miss after the TTL, of a store whose cases an earlier fetch returned
C10_Witness ==
    /\ fetched.done /\ ~fetched.fail
    /\ fetched.entry.valid /\ fetched.entry.complete /\ fetched.entry.hitSeen
    /\ Len(fetched.entry.cases) >= 2
    /\ fetched.at >= fetched.entry.t1 + ExpirySeconds(ExpiryHours)
    /\ ~fetched.res.hit

\* ===================================================================
\* Spec: one request handled by the index view, from a state that earlier
\* requests have left
\* ===================================================================
OldList == <<TC(1, "9\n", "18\n", TRUE)>>

RemoteLists ==
    { <<TC(1, "6\n", "12\n", TRUE), TC(2, "7\n", "14\n", FALSE)>>,
      <<TC(1, "5\n", "10\n", TRUE), TC(2, "", "3\n", FALSE), TC(3, "6\n", "12\n", FALSE)>> }

Remotes == [tests : RemoteLists, checker : {"std::ncmp.cpp", "check.cpp"}]

\* states left by earlier requests: nothing done yet; the problem only
\* displayed (its test cases are cached); the problem migrated to the
\* database (cache expired since); and the problem also migrated to storage
\* with its test cases still cached.  The Redis store is shared: it also
\* holds a key of another application.
MigratedDb ==
    UpsertTestCases(UpsertSamples(ReplaceTags(UpsertProblem(EmptyDb, "easy", "ncmp", 1),
                                              <<"greedy">>, ""), OldList), OldList)

MigratedStorage(type) ==
    upload_file(type,
                upload_test_case(type, EmptyStorage, ContainerName, FirstProblemId, 1, "9\n", "18\n", "none").st,
                ContainerName, CheckerSourcePath(FirstProblemId), "src", FALSE).st

ForeignKey == <<"oj_dev_with_redis_storage_test_cases", "_">> \o Str(FirstProblemId) \o <<"_", "count">>

CachedOld ==
    setex(store_test_cases_in_redis(NoBlobs, 0, PolygonId, OldList, ExpiryHours, Len(OldList) + 1),
          ForeignKey, ExpirySeconds(ExpiryHours), Str(1), 0)

\* further states earlier requests leave: the problem is in the database
\* and the last store of its two test cases ended at an exception after the
\* count record and the first record; or the count record is present and
\* the first record is not (it was evicted, or it expired before a later
\* store that ended after its count record), the case that
\* get_test_cases_from_redis logs as a missing test case
StoredList == <<TC(1, "9\n", "18\n", TRUE), TC(2, "8\n", "16\n", FALSE)>>

CachedPartial == store_test_cases_in_redis(NoBlobs, 0, PolygonId, StoredList, ExpiryHours, 2)

CachedEvicted ==
    Without(store_test_cases_in_redis(NoBlobs, 0, PolygonId, StoredList, ExpiryHours, Len(StoredList) + 1),
            {TestKey(PolygonId, 1)})

Init ==
    /\ storageType \in StorageTypes
    /\ \E past \in {"fresh", "displayed", "in_db", "in_storage", "partial", "evicted"} :
          /\ db = IF past \in {"fresh", "displayed"} THEN EmptyDb ELSE MigratedDb
          /\ storage = IF past = "in_storage" THEN MigratedStorage(storageType) ELSE EmptyStorage
          /\ cache = CASE past \in {"displayed", "in_storage"} -> CachedOld
                        [] past = "partial" -> CachedPartial
                        [] past = "evicted" -> CachedEvicted
                        [] OTHER -> NoBlobs
    /\ snapshot = db
    /\ start = [storage |-> storage, cache |-> cache]
    /\ pc = "idle" /\ inp = NoInp /\ remote = NoRemote /\ ctx = NoCtx /\ loc = NoLoc
    /\ ops = <<>>
    /\ now = 0 /\ storing = NoStore /\ cghost = <<>> /\ fetched = NoFetch
    /\ ghost = GhostInit /\ nOps = 0
    /\ runs = NoRuns

idleVars == <<storageType, ghost, nOps, now, storing, cghost, fetched, start, runs>>

\* an exception leaves the atomic block: the database is rolled back and
\* control passes to the except clause of the view
RaiseTx(err, log, current) ==
    /\ db' = Rollback(snapshot, current)
    /\ ctx' = IF err = "" THEN ctx ELSE [ctx EXCEPT !.error = err]
    /\ ops' = ops \o log \o <<Log("raise", <<err>>)>>
    /\ loc' = [loc EXCEPT !.raised = TRUE, !.dirty = (current # snapshot)]
    /\ pc' = "except"

AfterDisplay == IF inp.to_db THEN "db" ELSE IF inp.tc_to_db THEN "tcdb" ELSE "commit"

NewRequest ==
    /\ pc = "idle"
    /\ \E azure \in BOOLEAN, to_db \in BOOLEAN, tc_to_db \in BOOLEAN, up \in BOOLEAN,
          difficulty \in {"", "easy"}, tags \in {<<"dp", " ">>} :
          /\ inp' = [azure |-> azure, to_db |-> to_db, tc_to_db |-> tc_to_db,
                      difficulty |-> difficulty, tags |-> tags, new_tag |-> ""]
          /\ loc' = [NoLoc EXCEPT !.redisUp = up]
          /\ pc' = IF azure THEN "azure" ELSE "display"
    /\ remote' \in Remotes
    /\ ctx' = NoCtx
    /\ ops' = <<>>
    /\ snapshot' = db
    /\ start' = [storage |-> storage, cache |-> cache]
    /\ UNCHANGED <<db, storage, cache, storageType, ghost, nOps, now, storing, cghost, fetched, runs>>

\* the storage branch up to the call of migrate_to_cloud_storage
StepAzure ==
    /\ pc = "azure"
    /\ LET problem_obj == db.problem
           problem_id == IF problem_obj # <<>> THEN problem_obj[1].id ELSE 0
       IN IF PreconditionFails(problem_obj)
          THEN /\ ctx' = [ctx EXCEPT !.error = "not_in_db"]
               /\ loc' = [loc EXCEPT !.outcome = "rendered"]
               /\ pc' = "done"
               /\ UNCHANGED <<cache, ops>>
          ELSE \E apiFail \in BOOLEAN :
               /\ cache' = IF problem_obj # <<>>
                            THEN delete_problem_test_case_cache(cache, problem_id, ~loc.redisUp, {})
                            ELSE cache
               /\ ops' = ops \o (IF problem_obj # <<>>
                                  THEN <<Log("cache_delete", <<"oj_dev_with_redis_storage_test_cases", "_">>
                                                             \o Str(problem_id))>>
                                  ELSE <<>>)
                              \o <<Log("api", <<"problem.checker">> \o PolygonId)>>
               /\ ctx' = [ctx EXCEPT !.info = IF IsCustomChecker(remote.checker) /\ ~apiFail
                                               THEN "custom_checker" ELSE ""]
               /\ loc' = [loc EXCEPT !.problem_id = problem_id,
                                      !.custom_checker_info = IsCustomChecker(remote.checker) /\ ~apiFail]
               /\ pc' = "resolve"
    /\ UNCHANGED <<inp, remote, db, snapshot, storage, idleVars>>

\* migrate_to_cloud_storage: the test cases are resolved
StepResolve ==
    /\ pc = "resolve"
    /\ \E r \in CacheThenApi(cache, now, PolygonId, remote.tests, loc.redisUp) :
          IF r.raised
          THEN /\ RaiseTx("storage_failed", r.log, db)
               /\ UNCHANGED cache
          ELSE /\ cache' = r.cache
               /\ loc' = [loc EXCEPT !.test_cases = r.cases, !.hit = r.hit, !.idx = 1]
               /\ ops' = ops \o r.log
               /\ pc' = "purge"
               /\ UNCHANGED <<ctx, db>>
    /\ UNCHANGED <<inp, remote, snapshot, storage, idleVars>>

\* migrate_to_cloud_storage: empty_blob of the problem's prefix
StepPurge ==
    /\ pc = "purge"
    /\ LET naming == NamingId(loc.problem_id, PolygonId)
       IN \E fail \in BOOLEAN :
          \E partial \in (IF fail THEN PartialChoices(storageType, storage, naming) ELSE {{}}) :
            LET r == empty_blob(storageType, storage, ContainerName, naming, fail, partial)
            IN /\ storage' = r.st
               /\ IF r.raised
                  THEN RaiseTx("storage_failed", <<Log("purge_fail", ProblemPrefix(naming))>>, db)
                  ELSE /\ ops' = ops \o <<Log("purge", ProblemPrefix(naming))>>
                       /\ loc' = [loc EXCEPT !.purged = TRUE]
                       /\ pc' = IF Len(loc.test_cases) = 0 THEN "checker" ELSE "upload"
                       /\ UNCHANGED <<ctx, db>>
    /\ UNCHANGED <<inp, remote, snapshot, cache, idleVars>>

\* migrate_to_cloud_storage: where the upload loop goes after the iteration
\* at position idx of n test cases: the next iteration, or past the loop
AfterUpload_purges(idx, n) == IF idx = n THEN "checker" ELSE "purge"
AfterUpload(idx, n) == IF idx = n THEN "checker" ELSE "upload"

\* migrate_to_cloud_storage: one iteration of the upload loop
StepUpload ==
    /\ pc = "upload"
    /\ LET naming == NamingId(loc.problem_id, PolygonId)
           idx == loc.idx
           test == loc.test_cases[idx]
           after == AfterUpload(idx, Len(loc.test_cases))
       IN IF ShouldUpload(test)
          THEN \E fail \in UploadFailures :
                 LET r == upload_test_case(storageType, storage, ContainerName, naming, idx,
                                           test.input, test.output, fail)
                     puts == CASE fail = "input" -> <<Log("put_fail", InputKey(naming, idx))>>
                               [] fail = "output" -> <<Log("put", InputKey(naming, idx)),
                                                       Log("put_fail", OutputKey(naming, idx))>>
                               [] OTHER -> <<Log("put", InputKey(naming, idx)),
                                             Log("put", OutputKey(naming, idx))>>
                 IN /\ storage' = r.st
                    /\ IF r.raised
                       THEN RaiseTx("storage_failed", puts, db)
                       ELSE /\ ops' = ops \o puts
                            /\ loc' = [loc EXCEPT !.idx = idx + 1]
                            /\ pc' = after
                            /\ UNCHANGED <<ctx, db>>
          ELSE /\ loc' = [loc EXCEPT !.idx = idx + 1]
               /\ pc' = after
               /\ UNCHANGED <<storage, ctx, db, ops>>
    /\ UNCHANGED <<inp, remote, snapshot, cache, idleVars>>

\* migrate_to_cloud_storage: the checker, then the return to the view
StepChecker ==
    /\ pc = "checker"
    /\ LET naming == NamingId(loc.problem_id, PolygonId)
       IN \E outcome \in (IF IsCustomChecker(remote.checker) THEN CheckerOutcomes ELSE {"none"}) :
            LET r == upload_custom_checker_to_storage(storageType, storage, remote.checker,
                                                      ContainerName, naming, outcome)
                log == CASE outcome \in {"src_ok"} -> <<Log("put", CheckerSourcePath(naming))>>
                         [] outcome \in {"src_fail"} -> <<Log("put_fail", CheckerSourcePath(naming))>>
                         [] outcome \in {"bin_ok"} -> <<Log("put", CheckerBinaryPath(naming))>>
                         [] outcome \in {"bin_fail"} -> <<Log("put_fail", CheckerBinaryPath(naming))>>
                         [] outcome \in {"info_fail"} -> <<Log("api_fail", <<"problem.checker">> \o PolygonId)>>
                         [] OTHER -> <<>>
            IN /\ storage' = r.st
               /\ IF r.raised
                  THEN RaiseTx("storage_failed", log, db)
                  ELSE /\ ops' = ops \o log \o <<Log("migrated", ProblemPrefix(naming))>>
                       /\ loc' = [loc EXCEPT !.migrated = TRUE,
                                              !.azure_blob_uploaded = TRUE,
                                              !.azure_blob_problem_id = loc.problem_id]
                       /\ ctx' = [ctx EXCEPT !.success = IF loc.custom_checker_info
                                                         THEN "storage_and_checker" ELSE "storage"]
                       /\ pc' = "display"
                       /\ UNCHANGED db
    /\ UNCHANGED <<inp, remote, snapshot, cache, idleVars>>

\* problem info, package, the test cases for display, checker and count
StepDisplay ==
    /\ pc = "display"
    /\ \/ /\ RaiseTx("", <<Log("api", <<"problem.info">> \o PolygonId)>>, db)
          /\ UNCHANGED cache
       \/ \E r \in (IF inp.to_db \/ inp.tc_to_db \/ inp.azure
                     THEN CacheThenApi(cache, now, PolygonId, remote.tests, loc.redisUp)
                     ELSE ApiThenStore(cache, now, PolygonId, remote.tests, loc.redisUp)) :
               /\ cache' = r.cache
               /\ IF r.raised
                  THEN RaiseTx("", r.log, db)
                  ELSE \/ RaiseTx("", r.log \o <<Log("api", <<"problem.checker">> \o PolygonId)>>, db)
                       \/ \E count \in {Len(remote.tests), 0} :
                            /\ loc' = [loc EXCEPT !.checker_type = IF IsCustomChecker(remote.checker)
                                                                   THEN "custom" ELSE "ncmp",
                                                   !.test_case_count = count]
                            /\ ops' = ops \o r.log
                            /\ pc' = AfterDisplay
                            /\ UNCHANGED <<ctx, db>>
    /\ UNCHANGED <<inp, remote, snapshot, storage, idleVars>>

\* migrate_to_db: problem upsert, tags, sample rows
StepDb ==
    /\ pc = "db"
    /\ IF inp.difficulty = ""
       THEN /\ RaiseTx("difficulty", <<>>, db)
            /\ UNCHANGED cache
       ELSE LET d1 == UpsertProblem(db, inp.difficulty, loc.checker_type, loc.test_case_count)
                d2 == ReplaceTags(d1, inp.tags, inp.new_tag)
                msg == IF db.problem # <<>> THEN "updated" ELSE "created"
            IN \E r \in CacheThenApi(cache, now, PolygonId, remote.tests, loc.redisUp) :
                 /\ cache' = r.cache
                 /\ IF r.raised
                    THEN /\ db' = Rollback(snapshot, d2)
                         /\ ctx' = [ctx EXCEPT !.db_success = msg]
                         /\ ops' = ops \o r.log \o <<Log("raise", <<"">>)>>
                         /\ loc' = [loc EXCEPT !.raised = TRUE, !.dirty = (d2 # snapshot)]
                         /\ pc' = "except"
                    ELSE LET d3 == UpsertSamples(d2, r.cases)
                         IN \/ /\ db' = Rollback(snapshot, d3)
                               /\ ctx' = [ctx EXCEPT !.db_success = msg]
                               /\ ops' = ops \o r.log \o <<Log("raise", <<"db">>)>>
                               /\ loc' = [loc EXCEPT !.raised = TRUE, !.dirty = (d3 # snapshot)]
                               /\ pc' = "except"
                            \/ /\ db' = d3
                               /\ ctx' = [ctx EXCEPT !.db_success = msg]
                               /\ ops' = ops \o r.log
                               /\ pc' = IF inp.tc_to_db THEN "tcdb" ELSE "commit"
                               /\ UNCHANGED loc
    /\ UNCHANGED <<inp, remote, snapshot, storage, idleVars>>

\* migrate_test_cases_to_db: the test-case rows
StepTcDb ==
    /\ pc = "tcdb"
    /\ IF db.problem = <<>>
       THEN /\ RaiseTx("tc_first", <<>>, db)
            /\ UNCHANGED cache
       ELSE \E r \in CacheThenApi(cache, now, PolygonId, remote.tests, loc.redisUp) :
              /\ cache' = r.cache
              /\ IF r.raised
                 THEN RaiseTx("", r.log, db)
                 ELSE LET d1 == UpsertTestCases(db, r.cases)
                      IN \/ /\ db' = Rollback(snapshot, d1)
                            /\ ops' = ops \o r.log \o <<Log("raise", <<"db">>)>>
                            /\ loc' = [loc EXCEPT !.raised = TRUE, !.dirty = (d1 # snapshot)]
                            /\ pc' = "except"
                            /\ UNCHANGED ctx
                         \/ /\ db' = d1
                            /\ ctx' = [ctx EXCEPT !.success = "tc_db"]
                            /\ ops' = ops \o r.log
                            /\ pc' = "commit"
                            /\ UNCHANGED loc
    /\ UNCHANGED <<inp, remote, snapshot, storage, idleVars>>

\* the atomic block is left normally and the response is rendered
StepCommit ==
    /\ pc = "commit"
    /\ pc' = "done"
    /\ loc' = [loc EXCEPT !.outcome = "rendered"]
    /\ UNCHANGED <<inp, remote, ctx, db, snapshot, ops, storage, cache, idleVars>>

\* the except clause: api.delete_azure_blob is not a method of PolygonAPI,
\* so the call raises AttributeError out of the view; otherwise the cache
\* is cleared and the response is rendered
StepExcept ==
    /\ pc = "except"
    /\ ctx' = [ctx EXCEPT !.error = "migration_failed"]
    /\ IF loc.azure_blob_uploaded /\ loc.azure_blob_problem_id # 0
       THEN /\ ops' = ops \o <<Log("raise", <<"AttributeError">>)>>
            /\ loc' = [loc EXCEPT !.outcome = "crashed"]
            /\ UNCHANGED cache
       ELSE /\ cache' = clear_test_cases_from_redis(cache, PolygonId, ~loc.redisUp, {})
            /\ ops' = ops \o <<Log("cache_clear", CachePrefix(PolygonId))>>
            /\ loc' = [loc EXCEPT !.outcome = "rendered"]
    /\ pc' = "done"
    /\ UNCHANGED <<inp, remote, db, snapshot, storage, idleVars>>

Next ==
    \/ NewRequest \/ StepAzure \/ StepResolve \/ StepPurge \/ StepUpload \/ StepChecker
    \/ StepDisplay \/ StepDb \/ StepTcDb \/ StepCommit \/ StepExcept

Spec == Init /\ [][Next]_vars

TypeOK == pc \in {"idle", "azure", "resolve", "purge", "upload", "checker", "display", "db",
                  "tcdb", "commit", "except", "done"}

ErrorsOf(i) == {j \in 1..Len(ops) : j > i /\ ops[j].op = "raise"}

\* C1: when a request has purged or uploaded under the problem's storage
\* prefix and a later step of the request failed, then by the end of the
\* request a purge of that prefix and a cache invalidation for the external
\* problem id have been attempted after the failure.
C1_CompensationAfterStorageWrite ==
    (pc = "done" /\ loc.raised) =>
        \A i \in 1..Len(ops) : \A f \in ErrorsOf(i) :
            ops[i].op \in {"purge", "put"} =>
                /\ \E j \in (f + 1)..Len(ops) : ops[j].op \in {"purge", "purge_fail"}
                /\ \E j \in (f + 1)..Len(ops) : ops[j].op = "cache_clear"

\* C2: whenever a step inside the transaction has raised, the database
\* (Problem row, tag associations, tag rows, sample rows, test-case rows) is
\* the database of the beginning of the request.
C2_RollbackRestoresDb ==
    (loc.raised /\ pc \in {"except", "done"}) => db = snapshot

\* a failed request that had written to the database before it failed
C2_Witness ==
    /\ pc = "done" /\ loc.raised /\ loc.dirty
    /\ db = snapshot
    /\ snapshot.problem # <<>>

\* C3: in a storage migration of a problem that has a database record, the
\* cache fetch of migrate_to_cloud_storage is a miss, so the test cases it
\* uploads were fetched from the remote API during this request.
C3_StorageMigrationFetchesFresh ==
    (inp.azure /\ pc \in {"purge", "upload", "checker"}) => ~loc.hit

\* C4: a storage migration requested for a problem without a database
\* record ends with the user-facing error and has done nothing: no storage
\* operation, no cache operation, no remote call and no database write.
C4_NoRecordNoWork ==
    (inp.azure /\ snapshot.problem = <<>> /\ pc # "idle") =>
        /\ ops = <<>>
        /\ storage = start.storage
        /\ cache = start.cache
        /\ db = snapshot
        /\ pc \in {"azure", "done"}
        /\ pc = "done" => (ctx.error = "not_in_db" /\ ctx.success = "" /\ loc.outcome = "rendered")

C4_Witness ==
    /\ pc = "done" /\ inp.azure /\ inp.to_db /\ inp.difficulty # ""
    /\ snapshot.problem = <<>>
    /\ ctx.error = "not_in_db"
    /\ cache # NoBlobs

\* the <<name, data>> pairs of the test cases that have both sides
UploadablePairs(test_cases) ==
    UNION {{<<Format02d(i), test_cases[i].input>>, <<Format02d(i) \o <<".a">>, test_cases[i].output>>} :
              i \in {j \in 1..Len(test_cases) : test_cases[j].input # "" /\ test_cases[j].output # ""}}

\* C5: when the upload loop of migrate_to_cloud_storage has ended, storage
\* holds under the problem's prefix exactly the input and output objects of
\* the resolved test cases that have both a non-empty input and a non-empty
\* output, one object each; the others were skipped without raising.
C5_UploadsExactlyCompleteCases ==
    pc = "checker" =>
        /\ NamePairs(storageType, storage, NamingId(loc.problem_id, PolygonId)) = UploadablePairs(loc.test_cases)
        /\ Cardinality(ObjectsUnder(storageType, storage, NamingId(loc.problem_id, PolygonId)))
              = Cardinality(UploadablePairs(loc.test_cases))

\* cases 1 and 3 complete, case 2 without input: objects of 1 and 3 only
C5_Witness ==
    /\ pc = "checker"
    /\ Len(loc.test_cases) = 3
    /\ loc.test_cases[2].input = "" /\ loc.test_cases[2].output # ""
    /\ {pr[1] : pr \in NamePairs(storageType, storage, NamingId(loc.problem_id, PolygonId))}
          = {<<"0", "1">>, <<"0", "1", ".a">>, <<"0", "3">>, <<"0", "3", ".a">>}

\* C6: after a storage migration run of a problem whose remote checker is
\* custom, exactly one of custom_checker and custom_checker.cpp exists
\* under the problem's prefix.
C6_ExactlyOneCheckerArtifact ==
    (loc.migrated /\ IsCustomChecker(remote.checker)) =>
        LET k == NamingId(loc.problem_id, PolygonId)
            bin == ObjectsNamed(storageType, storage, k, <<"custom_checker">>)
            src == ObjectsNamed(storageType, storage, k, <<"custom_checker.cpp">>)
        IN (bin # {}) # (src # {})

\* ------------------------------------------------ specification ConcSpec
\* Two runs of migrate_to_cloud_storage for the same database id and the
\* same resolved list, interleaved at the granularity of one storage
\* operation: purge, write of an input object, write of an output object,
\* write of the checker.  No operation fails for an outside reason; a
\* write whose directory or folder the other run has removed raises.

\* the folder upload_test_case resolves for test_cases/{db_problem_id}
ProblemFolder(drive, container_name, db_problem_id) ==
    LET c == get_or_create_folder(drive, container_name, NoParent)
        t == get_or_create_folder(c.drive, <<"test_cases">>, c.id)
    IN get_or_create_folder(t.drive, Str(db_problem_id), t.id).id

\* the second write of upload_test_case on its own: the output object goes
\* to the directory or folder the call resolved before its first write
write_output(type, st, container_name, db_problem_id, test_number, output_data, folder) ==
    CASE type = "local" ->
            IF ProblemDir(db_problem_id) \in st.dirs
            THEN Result([st EXCEPT !.blobs = Put(@, ProblemDir(db_problem_id) \o <<"/">>
                                                       \o Format02d(test_number) \o <<".a">>, output_data)], FALSE)
            ELSE Result(st, TRUE)
      [] type = "gdrive" ->
            IF \E f \in st.drive : f.id = folder /\ f.folder
            THEN Result([st EXCEPT !.drive = DriveCreate(@, Format02d(test_number) \o <<".a">>,
                                                         folder, output_data)], FALSE)
            ELSE Result(st, TRUE)
      [] OTHER -> Result([st EXCEPT !.blobs = Put(@, OutputKey(db_problem_id, test_number), output_data)], FALSE)

\* the next position of the loop at or after `from` that is uploaded, 0 if none
NextUpload(test_cases, from) ==
    LET rest == {i \in from..Len(test_cases) : ShouldUpload(test_cases[i])}
    IN IF rest = {} THEN 0 ELSE CHOOSE i \in rest : \A j \in rest : i <= j

\* where a run goes when it has dealt with the positions before `from`
Advance(run, from) ==
    LET n == NextUpload(run.test_cases, from)
    IN IF n # 0 THEN [run EXCEPT !.pc = "input", !.idx = n]
       ELSE IF IsCustomChecker(run.checker) THEN [run EXCEPT !.pc = "checker", !.idx = 0]
       ELSE [run EXCEPT !.pc = "done", !.idx = 0]

ConcInit ==
    /\ storageType \in StorageTypes
    /\ storage \in {EmptyStorage, MigratedStorage(storageType)}
    /\ \E tests \in RemoteLists, checker \in {"std::ncmp.cpp", "check.cpp"} :
          runs = [r \in Runs |-> [pc |-> "purge", idx |-> 0, folder |-> NoParent,
                                  test_cases |-> tests, checker |-> checker]]
    /\ ghost = GhostInit /\ nOps = 0
    /\ CacheIdle
    /\ pc = "idle" /\ inp = NoInp /\ remote = NoRemote /\ ctx = NoCtx /\ loc = NoLoc
    /\ db = EmptyDb /\ snapshot = EmptyDb
    /\ start = [storage |-> EmptyStorage, cache |-> NoBlobs]
    /\ ops = <<>>

concIdle == <<storageType, ghost, nOps, cacheVars, pc, inp, remote, ctx, loc, db, snapshot, start, ops>>

CPurge(r) ==
    /\ runs[r].pc = "purge"
    /\ storage' = empty_blob(storageType, storage, ContainerName, FirstProblemId, FALSE, {}).st
    /\ runs' = [runs EXCEPT ![r] = Advance(@, 1)]
    /\ UNCHANGED concIdle

CPutInput(r) ==
    /\ runs[r].pc = "input"
    /\ LET test == runs[r].test_cases[runs[r].idx]
           st1 == upload_test_case(storageType, storage, ContainerName, FirstProblemId,
                                   runs[r].idx, test.input, test.output, "output").st
       IN /\ storage' = st1
          /\ runs' = [runs EXCEPT ![r].pc = "output",
                                  ![r].folder = IF storageType = "gdrive"
                                                THEN ProblemFolder(st1.drive, ContainerName, FirstProblemId)
                                                ELSE NoParent]
    /\ UNCHANGED concIdle

CPutOutput(r) ==
    /\ runs[r].pc = "output"
    /\ LET test == runs[r].test_cases[runs[r].idx]
           res == write_output(storageType, storage, ContainerName, FirstProblemId,
                               runs[r].idx, test.output, runs[r].folder)
       IN /\ storage' = res.st
          /\ runs' = [runs EXCEPT ![r] = IF res.raised THEN [@ EXCEPT !.pc = "failed"]
                                         ELSE Advance([@ EXCEPT !.folder = NoParent], @.idx + 1)]
    /\ UNCHANGED concIdle

CPutChecker(r) ==
    /\ runs[r].pc = "checker"
    /\ \E outcome \in {"src_ok", "bin_ok"} :
          storage' = upload_custom_checker_to_storage(storageType, storage, runs[r].checker,
                                                      ContainerName, FirstProblemId, outcome).st
    /\ runs' = [runs EXCEPT ![r].pc = "done"]
    /\ UNCHANGED concIdle

ConcNext == \E r \in Runs : CPurge(r) \/ CPutInput(r) \/ CPutOutput(r) \/ CPutChecker(r)

ConcSpec == ConcInit /\ [][ConcNext]_vars

\* the objects of test cases under the prefix (the checker's aside)
TestObjects(type, st, problem_id) ==
    {o \in ObjectsUnder(type, st, problem_id) :
        o.name \notin {<<"custom_checker">>, <<"custom_checker.cpp">>}}

\* C9: when two interleaved runs for one database id and one resolved list
\* have both completed, the prefix holds what a single run leaves: for
\* every uploaded test number exactly one input object and one output
\* object, with the content of the list.
C9_ConcurrentRunsConverge ==
    (\A r \in Runs : runs[r].pc = "done") =>
        /\ {<<o.name, o.data>> : o \in TestObjects(storageType, storage, FirstProblemId)}
              = UploadablePairs(runs[1].test_cases)
        /\ Cardinality(TestObjects(storageType, storage, FirstProblemId))
              = Cardinality(UploadablePairs(runs[1].test_cases))

\* ------------------------------------------------ further properties of Spec
CacheOps == {"cache_get", "cache_store", "cache_delete", "cache_clear"}

\* the causes of an exception that are not the call made just before it
OwnCauses == {<<"difficulty">>, <<"tc_first">>, <<"db">>, <<"AttributeError">>}

\* C11: no exception of a request comes from a cache operation (a raise
\* that directly follows a cache call has a cause of its own), and with
\* Redis unreachable the fetch of a storage migration is a miss and the
\* migration goes on with the test cases of the remote API.
C11_CacheNeverBlocks ==
    /\ \A j \in 2..Len(ops) :
          (ops[j].op = "raise" /\ ops[j - 1].op \in CacheOps) => ops[j].id \in OwnCauses
    /\ (~loc.redisUp /\ inp.azure /\ pc \in {"purge", "upload", "checker"}) =>
          /\ ~loc.hit
          /\ \E i \in 1..Len(ops) : ops[i] = Log("api", <<"problem.tests">> \o PolygonId)
          /\ \E failed \in FetchFailures(remote.tests) :
                loc.test_cases = get_all_test_cases(remote.tests, failed)

\* a storage migration that succeeded while Redis was unreachable, an
\* entry for the problem being in the cache
C11_Witness ==
    /\ pc = "done" /\ inp.azure /\ ~loc.redisUp
    /\ loc.migrated /\ ~loc.raised
    /\ ctx.success # ""
    /\ CountKey(PolygonId) \in DOMAIN cache

\* C12: when a storage migration takes its test cases from the cache, the
\* number of records it took equals the number the count record states.
C12_HitOnlyWhenComplete ==
    (inp.azure /\ loc.hit /\ pc \in {"purge", "upload", "checker"}) =>
        LET count == redis_get(cache, CountKey(PolygonId), now)
        IN /\ count # <<>>
           /\ Len(loc.test_cases) = ParseInt(count[1])

\* ------------------------------------------ further properties of CacheSpec
\* the positions 1..count whose record a fetch at time t finds in cache c
PresentAt(c, t, ref, count) ==
    {i \in 1..count : TestKey(ref, i) \in DOMAIN c /\ t < c[TestKey(ref, i)].exp}

\* C13: a fetch that Redis answers is a miss when the count record is
\* absent; when it is present the fetch is a hit whose list is the records
\* present at positions 1..count in ascending position, the absent ones
\* left out, so it has at most count elements.
C13_FetchOmitsAbsentRecords ==
    (fetched.done /\ ~fetched.fail) =>
        LET c == fetched.cache
            key == CountKey(fetched.ref)
            counted == key \in DOMAIN c /\ fetched.at < c[key].exp
            count == ParseInt(c[key].val)
            present == PresentAt(c, fetched.at, fetched.ref, count)
        IN /\ ~counted => fetched.res = Miss
           /\ counted =>
                /\ fetched.res.hit
                /\ Len(fetched.res.cases) = Cardinality(present)
                /\ Len(fetched.res.cases) <= count
                /\ \A k \in 1..Len(fetched.res.cases) :
                      \E i \in present :
                         /\ Cardinality({j \in present : j < i}) = k - 1
                         /\ fetched.res.cases[k] = c[TestKey(fetched.ref, i)].val.json

\* a hit on an entry whose first record is absent and whose second is there
C13_Witness ==
    /\ fetched.done /\ ~fetched.fail /\ fetched.res.hit
    /\ TestKey(fetched.ref, 1) \notin DOMAIN fetched.cache
    /\ TestKey(fetched.ref, 2) \in DOMAIN fetched.cache
    /\ Len(fetched.res.cases) = 1
    /\ fetched.res.cases[1].index = 2

\* ------------------------------------------- Spec: resolution of test cases
\* C14: every call of the remote API for the test cases of the problem
\* directly follows a cache fetch (which was a miss), and is followed by the
\* store of what it returned unless it raised.
C14_CacheFirstEverywhere ==
    \A i \in 1..Len(ops) :
        ops[i] = Log("api", <<"problem.tests">> \o PolygonId) =>
            /\ i > 1 /\ ops[i - 1] = Log("cache_get", CachePrefix(PolygonId))
            /\ i < Len(ops) => ops[i + 1].op \in {"cache_store", "raise"}

\* C15: the list get_all_test_cases returns has one record per test the
\* remote lists, in the listed order and with the listed index; a record
\* carries the remote input and output, or both empty when the fetch of
\* that test failed, whatever tests failed.
C15_PerTestFailureDegrades ==
    (inp.azure /\ ~loc.hit /\ pc \in {"purge", "upload", "checker"}) =>
        /\ Len(loc.test_cases) = Len(remote.tests)
        /\ \A i \in 1..Len(remote.tests) :
              /\ loc.test_cases[i].index = remote.tests[i].index
              /\ loc.test_cases[i].is_sample = remote.tests[i].is_sample
              /\ \/ /\ loc.test_cases[i].input = remote.tests[i].input
                    /\ loc.test_cases[i].output = remote.tests[i].output
                 \/ /\ loc.test_cases[i].input = ""
                    /\ loc.test_cases[i].output = ""

\* the fetch of test 1 failed and test 2 came through
C15_Witness ==
    /\ inp.azure /\ ~loc.hit /\ pc = "purge"
    /\ Len(loc.test_cases) = 2
    /\ remote.tests[1].input # "" /\ loc.test_cases[1].input = "" /\ loc.test_cases[1].output = ""
    /\ loc.test_cases[2].input = remote.tests[2].input /\ loc.test_cases[2].input # ""

\* ------------------------------------------- Spec: what aborts a migration
\* C16: a failed purge or upload of a storage migration is followed at once
\* by the exception that aborts it; the migration is not reported
\* successful after it.
C16_StorageFailureAborts ==
    \A i \in 1..Len(ops) :
        ops[i].op \in {"purge_fail", "put_fail"} =>
            /\ i < Len(ops) /\ ops[i + 1].op = "raise"
            /\ \A j \in (i + 1)..Len(ops) : ops[j].op # "migrated"
            /\ ~loc.migrated

\* C17: a remote call of a storage migration that failed in transport is
\* followed by the exception that aborts the migration; the migration is
\* not reported successful after it.
C17_TransportFailureAborts ==
    \A i \in 1..Len(ops) :
        ops[i].op = "api_fail" =>
            /\ \E j \in (i + 1)..Len(ops) : ops[j].op = "raise"
            /\ \A j \in (i + 1)..Len(ops) : ops[j].op # "migrated"

\* ---------------------------------------------- Spec: naming of the keys
\* C19: when the upload loop has ended, every resolved test case that has
\* both sides is stored under the number of its own index field: the
\* object named by the two-digit form of test.index exists and holds the
\* test's input, and the object of that name plus ".a" holds its output.
C19_KeyNumberIsOwnIndex ==
    pc = "checker" =>
        \A i \in 1..Len(loc.test_cases) :
            LET test == loc.test_cases[i]
                naming == NamingId(loc.problem_id, PolygonId)
            IN (test.input # "" /\ test.output # "") =>
                  /\ \E o \in ObjectsNamed(storageType, storage, naming, Format02d(test.index)) :
                        o.data = test.input
                  /\ \E o \in ObjectsNamed(storageType, storage, naming, Format02d(test.index) \o <<".a">>) :
                        o.data = test.output

EndsWith(s, p) == /\ Len(p) <= Len(s)
                  /\ SubSeq(s, Len(s) - Len(p) + 1, Len(s)) = p

\* C20: in every request each remote call and each cache operation (read,
\* store, invalidation, clear) names the Polygon problem id, and each
\* storage operation names a key under test_cases/{database id}/.
C20_IdentifiersNotInterchanged ==
    \A i \in 1..Len(ops) :
        /\ ops[i].op \in {"api", "api_fail"} => EndsWith(ops[i].id, PolygonId)
        /\ ops[i].op \in {"cache_get", "cache_store", "cache_delete", "cache_clear"} =>
              StartsWith(ops[i].id, <<"polygon_migration_test_cases", "_">> \o PolygonId)
        /\ ops[i].op \in {"purge", "purge_fail", "put", "put_fail"} =>
              StartsWith(ops[i].id, <<"test_cases", "/">> \o Str(FirstProblemId) \o <<"/">>)

\* ===================================================================
\* KeySpec: upload_test_case applied to a pair of test numbers on one
\* backend under one problem key
\* ===================================================================
MaxKeyNumber == 100

KeyData == <<"5\n", "10\n">>

\* ghost: the problem key, the test numbers still to upload and the
\* numbers whose upload has completed
KeyInit ==
    /\ storageType \in StorageTypes
    /\ storage = EmptyStorage
    /\ \E k \in ProblemKeys, n1 \in 1..MaxKeyNumber, n2 \in 1..MaxKeyNumber :
           ghost = [key |-> k, todo |-> <<n1, n2>>, done |-> {}]
    /\ nOps = 0
    /\ CacheIdle
    /\ OrchIdle

KUploadTestCase ==
    /\ ghost.todo # <<>>
    /\ LET n == Head(ghost.todo)
           r == upload_test_case(storageType, storage, ContainerName, ghost.key, n,
                                 KeyData[1], KeyData[2], "none")
       IN /\ storage' = r.st
          /\ ghost' = [ghost EXCEPT !.todo = Tail(@), !.done = @ \cup {n}]
    /\ UNCHANGED <<storageType, nOps, cacheVars, orchVars>>

KeyNext == KUploadTestCase

KeySpec == KeyInit /\ [][KeyNext]_vars

\* the order of two strings by the codes of their characters; the decimal
\* digits have consecutive codes in the order of their values
RECURSIVE LexLess(_, _)
LexLess(x, y) ==
    IF x = <<>> THEN y # <<>>
    ELSE IF y = <<>> THEN FALSE
    ELSE IF x[1] = y[1] THEN LexLess(Tail(x), Tail(y))
    ELSE (CHOOSE d \in 1..10 : DigitTok[d] = x[1]) < (CHOOSE d \in 1..10 : DigitTok[d] = y[1])

InputNames(type, st, k) ==
    {o.name : o \in {u \in ObjectsUnder(type, st, k) : u.name[Len(u.name)] # ".a"}}

\* C18: after upload_test_case(k, n) for the numbers n of ghost.done, the
\* objects of the backend are all under test_cases/{k}/; the input objects
\* are one decimal name per uploaded number, of value n, of at least two
\* digits, of exactly two digits for n <= 99 and without a leading zero
\* beyond two digits, holding the input data; the other objects are exactly
\* those names followed by ".a", holding the output data; and over the
\* numbers 1..99 the input keys are ordered as strings exactly as their
\* numbers are ordered.
C18_KeyFormat ==
    LET k == ghost.key
        objs == ObjectsUnder(storageType, storage, k)
        inputs == InputNames(storageType, storage, k)
    IN /\ storageType # "gdrive" => DOMAIN storage.blobs = KeysUnder(storage.blobs, <<"test_cases", "/">> \o Str(k) \o <<"/">>)
       /\ {ParseInt(x) : x \in inputs} = ghost.done
       /\ Cardinality(inputs) = Cardinality(ghost.done)
       /\ \A x \in inputs :
             /\ Len(x) >= 2
             /\ ParseInt(x) <= 99 => Len(x) = 2
             /\ Len(x) > 2 => x[1] # "0"
       /\ {o.name : o \in objs} = inputs \cup {x \o <<".a">> : x \in inputs}
       /\ \A o \in objs : o.data = IF o.name \in inputs THEN KeyData[1] ELSE KeyData[2]
       /\ \A x, y \in inputs :
             (ParseInt(x) <= 99 /\ ParseInt(y) <= 99) =>
                 (LexLess(ProblemPrefix(k) \o x, ProblemPrefix(k) \o y) <=> ParseInt(x) < ParseInt(y))

\* a one-digit and a two-digit number have both been uploaded
C18_Witness ==
    /\ ghost.todo = <<>>
    /\ \E a, b \in ghost.done : a < 10 /\ b >= 10 /\ b <= 99
    /\ Cardinality(ObjectsUnder(storageType, storage, ghost.key)) >= 4

\* ===================================================================
\* RequestSpec: one call of _make_request on one HTTP exchange
\* ===================================================================
\* an HTTP exchange: code 0 stands for no response at all (the connection
\* failed); the body is the text of the response, one token per lexical
\* element
Response(code, body) == [code |-> code, body |-> body]

HttpCodes == {200, 204, 300, 404, 500}

Bodies ==
    { <<"{", "status", ":", "OK", ",", "result", ":", "r1", "}">>,
      <<"{", "status", ":", "OK", "}">>,
      <<"{", "result", ":", "r1", "}">>,
      <<"{", "status", ":", "FAILED", ",", "comment", ":", "no access", "}">>,
      <<"int main() {}">>,
      <<>> }

Responses == {Response(0, <<>>)} \cup {Response(c, b) : c \in HttpCodes, b \in Bodies}

\* response.raise_for_status(): raises for the codes 400..599
raise_for_status(code) == 400 <= code /\ code < 600

\* the members "key : value" of an object, the last one of a key winning
RECURSIVE JsonMembers(_)
JsonMembers(t) ==
    IF Len(t) < 3 THEN NoBlobs
    ELSE Put(JsonMembers(SubSeq(t, 1, Len(t) - 4)), t[Len(t) - 2], t[Len(t)])

\* response.json(): the object of the text, or a decode error
json_decode(body) ==
    IF Len(body) >= 2 /\ body[1] = "{" /\ body[Len(body)] = "}"
    THEN [ok |-> TRUE, obj |-> JsonMembers(SubSeq(body, 2, Len(body) - 1))]
    ELSE [ok |-> FALSE, obj |-> NoBlobs]

\* dict.get(key): <<value>>, or <<>> for None
DictGet(obj, key) == IF key \in DOMAIN obj THEN <<obj[key]>> ELSE <<>>

Return(value) == [kind |-> "return", error |-> "", value |-> value]
Raise(error, detail) == [kind |-> "raise", error |-> error, value |-> detail]

\* _make_request: the set of its possible outcomes on one exchange.  The
\* decode error of response.json() is a RequestException in some versions
\* of the HTTP library and not in others, so both outcomes are possible.
make_request(method_name, expect_json, response) ==
    IF response.code = 0 \/ raise_for_status(response.code)
    THEN {Raise("HTTP Request Error", <<Str(response.code)>>)}
    ELSE IF ~expect_json
    THEN {Return(<<response.body>>)}
    ELSE LET data == json_decode(response.body)
         IN IF ~data.ok
            THEN {Raise("JSONDecodeError", <<>>), Raise("HTTP Request Error", <<>>)}
            ELSE IF DictGet(data.obj, "status") = <<"FAILED">>
            THEN {Raise("Polygon API Error", DictGet(data.obj, "comment"))}
            ELSE {Return(DictGet(data.obj, "result"))}

make_plain_request(method_name, response) == make_request(method_name, FALSE, response)

ApiMethods == {"problem.info", "problem.viewFile"}

\* ghost: the call (method, mode, the exchange it meets) and its outcome
RequestInit ==
    /\ storageType = "local"
    /\ storage = EmptyStorage
    /\ \E m \in ApiMethods, j \in BOOLEAN, r \in Responses :
           ghost = [method |-> m, expect_json |-> j, response |-> r, out |-> <<>>]
    /\ nOps = 0
    /\ CacheIdle
    /\ OrchIdle

RMakeRequest ==
    /\ ghost.out = <<>>
    /\ \E o \in make_request(ghost.method, ghost.expect_json, ghost.response) :
           ghost' = [ghost EXCEPT !.out = <<o>>]
    /\ UNCHANGED <<storageType, storage, nOps, cacheVars, orchVars>>

RequestNext == RMakeRequest

RequestSpec == RequestInit /\ [][RequestNext]_vars

Is2xx(code) == 200 <= code /\ code < 300

\* C21: in either mode a response outside 2xx makes the call raise the
\* transport error; a 2xx response whose body is a JSON object with status
\* FAILED makes it raise the remote API error carrying the comment; and a
\* call that returns returns the result member (JSON mode) or the text of
\* the body (plain mode).
C21_MakeRequestContract ==
    ghost.out # <<>> =>
        LET r == ghost.response
            o == ghost.out[1]
            data == json_decode(r.body)
            failed == Is2xx(r.code) /\ data.ok /\ DictGet(data.obj, "status") = <<"FAILED">>
        IN /\ ~Is2xx(r.code) => (o.kind = "raise" /\ o.error = "HTTP Request Error")
           /\ failed => (o.kind = "raise" /\ o.error = "Polygon API Error"
                                           /\ o.value = DictGet(data.obj, "comment"))
           /\ (o.kind = "return" /\ Is2xx(r.code) /\ ~failed) =>
                 o.value = IF ghost.expect_json THEN DictGet(data.obj, "result") ELSE <<r.body>>

\* ===================================================================
\* FetchSpec: fetch_custom_checker_file, one attempt at a time
\* ===================================================================
\* a file name is its stem followed by its extension, if any
CheckerNames == {<<"check">>, <<"check", ".cpp">>, <<"testlib", ".h">>}

FetchResponses ==
    { Response(200, <<"int main() {}">>),
      Response(200, <<>>),
      Response(404, <<"{", "status", ":", "FAILED", ",", "comment", ":", "no access", "}">>),
      Response(0, <<>>) }

\* the request of one attempt: the type and the name sent to problem.viewFile
Candidate(type, name) == [type |-> type, name |-> name]

\* ghost: the checker name, what the server answers to the three requests
\* that can be made, the position in the function, the requests made so
\* far and the value returned (<<content>>, or <<>> for None)
FetchInit ==
    /\ storageType = "local"
    /\ storage = EmptyStorage
    /\ \E name \in CheckerNames, r1 \in FetchResponses, r2 \in FetchResponses, r3 \in FetchResponses :
           ghost = [checker_name |-> name, server |-> <<r1, r2, r3>>, pc |-> "source",
                    tried |-> <<>>, content |-> <<>>]
    /\ nOps = 0
    /\ CacheIdle
    /\ OrchIdle

FSource ==
    /\ ghost.pc = "source"
    /\ \E o \in make_plain_request("problem.viewFile", ghost.server[1]) :
           ghost' = [ghost EXCEPT !.tried = Append(@, Candidate("source", ghost.checker_name)),
                                  !.content = IF o.kind = "return" THEN o.value ELSE <<>>,
                                  !.pc = IF o.kind = "return" THEN "done" ELSE "resource"]
    /\ UNCHANGED <<storageType, storage, nOps, cacheVars, orchVars>>

\* the attempts end after the resource file
FResource_stops ==
    /\ ghost.pc = "resource"
    /\ \E o \in make_plain_request("problem.viewFile", ghost.server[2]) :
           ghost' = [ghost EXCEPT !.tried = Append(@, Candidate("resource", ghost.checker_name)),
                                  !.content = IF o.kind = "return" THEN o.value ELSE <<>>,
                                  !.pc = "done"]
    /\ UNCHANGED <<storageType, storage, nOps, cacheVars, orchVars>>

FResource ==
    /\ ghost.pc = "resource"
    /\ \E o \in make_plain_request("problem.viewFile", ghost.server[2]) :
           ghost' = [ghost EXCEPT !.tried = Append(@, Candidate("resource", ghost.checker_name)),
                                  !.content = IF o.kind = "return" THEN o.value ELSE <<>>,
                                  !.pc = IF o.kind = "return" THEN "done"
                                         ELSE IF ~EndsWith(ghost.checker_name, <<".cpp">>) THEN "cpp"
                                         ELSE "done"]
    /\ UNCHANGED <<storageType, storage, nOps, cacheVars, orchVars>>

FCpp ==
    /\ ghost.pc = "cpp"
    /\ \E o \in make_plain_request("problem.viewFile", ghost.server[3]) :
           ghost' = [ghost EXCEPT !.tried = Append(@, Candidate("source", ghost.checker_name \o <<".cpp">>)),
                                  !.content = IF o.kind = "return" THEN o.value ELSE <<>>,
                                  !.pc = "done"]
    /\ UNCHANGED <<storageType, storage, nOps, cacheVars, orchVars>>

FetchNext == FSource \/ FResource \/ FCpp

FetchSpec == FetchInit /\ [][FetchNext]_vars

\* the three locations of a checker name, in the order of the attempts
ThreeCandidates(name) ==
    <<[type |-> "source", name |-> name], [type |-> "resource", name |-> name],
      [type |-> "source", name |-> name \o <<".cpp">>]>>

\* the request is answered and not with an error code
Answers(response) == response.code # 0 /\ ~(400 <= response.code /\ response.code < 600)

\* the attempts made are the first ones of `candidates`, they stop at the
\* first one that is answered, whose content is returned, and None is
\* returned only when all of `candidates` were tried without an answer
TriesInOrder(candidates) ==
    /\ Len(ghost.tried) <= Len(candidates)
    /\ ghost.tried = SubSeq(candidates, 1, Len(ghost.tried))
    /\ \A i \in 1..(Len(ghost.tried) - 1) : ~Answers(ghost.server[i])
    /\ ghost.pc = "done" =>
          /\ Len(ghost.tried) >= 1
          /\ IF Answers(ghost.server[Len(ghost.tried)])
             THEN ghost.content = <<ghost.server[Len(ghost.tried)].body>>
             ELSE ghost.content = <<>> /\ Len(ghost.tried) = Len(candidates)

\* C22 as stated: for every checker name the attempts are source file,
\* resource file, source file with the appended extension, in this order,
\* stopping at the first success, and the function fails only after all
\* three have failed.
C22_ThreeCandidatesAlways == TriesInOrder(ThreeCandidates(ghost.checker_name))

\* C22 amended: the third location is a candidate only for a checker name
\* that does not end in ".cpp"; the function fails only after every
\* candidate of the name has failed.
C22_CandidatesInOrder ==
    TriesInOrder(IF EndsWith(ghost.checker_name, <<".cpp">>)
                 THEN SubSeq(ThreeCandidates(ghost.checker_name), 1, 2)
                 ELSE ThreeCandidates(ghost.checker_name))

\* source and resource attempts failed, the name with the extension was found
C22_Witness ==
    /\ ghost.pc = "done"
    /\ Len(ghost.tried) = 3
    /\ ghost.tried[3].name = <<"check", ".cpp">>
    /\ ghost.content = <<<<"int main() {}">>>>

\* ===================================================================
\* CompileSpec: compile_custom_checker in one environment, then the
\* upload that upload_custom_checker_to_storage makes of its result
\* ===================================================================
\* what subprocess.run of the compiler does: exits with code 0, exits with
\* another code, exceeds the timeout, or cannot be started
CompilerRuns == {"exit0", "exit1", "timeout", "oserror"}

\* the environment of a compilation: shutil.which finds g++, the source
\* file can be written, the run of the compiler, the binary exists after
\* it, os.chmod succeeds, the binary can be read back, the upload fails
CompileEnvs ==
    [gpp : BOOLEAN, writable : BOOLEAN, run : CompilerRuns, binary : BOOLEAN,
     chmod : BOOLEAN, readable : BOOLEAN, upload_fails : BOOLEAN]

BinaryFile == <<"checker_dir", "/", "custom_checker">>

\* compile_custom_checker: Return(<<binary_file>>), Return(<<>>) for None,
\* or the exception of the write of the source file
compile_custom_checker(env) ==
    IF ~env.gpp THEN Return(<<>>)
    ELSE IF ~env.writable THEN Raise("OSError", <<>>)
    ELSE IF env.run # "exit0" THEN Return(<<>>)
    ELSE IF ~env.binary THEN Return(<<>>)
    ELSE IF ~env.chmod THEN Return(<<>>)
    ELSE Return(<<BinaryFile>>)

\* the branch of upload_custom_checker_to_storage taken on a result of
\* compile_custom_checker
OutcomeOfCompile(out, env) ==
    IF out.kind = "raise" THEN "compile_raise"
    ELSE IF out.value = <<>> THEN (IF env.upload_fails THEN "src_fail" ELSE "src_ok")
    ELSE IF ~env.readable THEN "bin_read_fail"
    ELSE IF env.upload_fails THEN "bin_fail" ELSE "bin_ok"

CompileInit ==
    /\ storageType \in StorageTypes
    /\ storage = EmptyStorage
    /\ \E env \in CompileEnvs : ghost = [env |-> env, pc |-> "compile", out |-> <<>>, raised |-> FALSE]
    /\ nOps = 0
    /\ CacheIdle
    /\ OrchIdle

CCompile ==
    /\ ghost.pc = "compile"
    /\ ghost' = [ghost EXCEPT !.out = <<compile_custom_checker(ghost.env)>>, !.pc = "upload"]
    /\ UNCHANGED <<storageType, storage, nOps, cacheVars, orchVars>>

CUpload ==
    /\ ghost.pc = "upload"
    /\ LET r == upload_custom_checker_to_storage(storageType, storage, "check.cpp", ContainerName,
                                                 FirstProblemId, OutcomeOfCompile(ghost.out[1], ghost.env))
       IN /\ storage' = r.st
          /\ ghost' = [ghost EXCEPT !.pc = "done", !.raised = r.raised]
    /\ UNCHANGED <<storageType, nOps, cacheVars, orchVars>>

CompileNext == CCompile \/ CUpload

CompileSpec == CompileInit /\ [][CompileNext]_vars

\* C23: compile_custom_checker returns a binary path only when g++ was
\* found, it exited with code 0 within the timeout and the binary exists;
\* in every other case it returns None without raising, and the checker
\* source, and no binary, is then uploaded.
C23_CompileOrSourceFallback ==
    LET env == ghost.env
        compiled == env.gpp /\ env.run = "exit0" /\ env.binary
        names == {o.name : o \in ObjectsUnder(storageType, storage, FirstProblemId)}
    IN /\ ghost.pc # "compile" =>
             /\ (ghost.out[1].kind = "return" /\ ghost.out[1].value # <<>>) => compiled
             /\ ~compiled => ghost.out[1] = [kind |-> "return", error |-> "", value |-> <<>>]
       /\ (ghost.pc = "done" /\ ~compiled) => names = {<<"custom_checker.cpp">>}

\* ===================================================================
\* PackageSpec: download_and_extract_package, one step at a time
\* ===================================================================
\* what each step of the function meets: tempfile.mkdtemp succeeds,
\* problem.info (returns a description, returns nothing, raises),
\* problem.packages (raises, returns no package, none of the type, one of
\* the type), the download of problem.package (connection error, error
\* status, a JSON error payload, bytes that are not an archive, an archive
\* that cannot be opened, one without problem.html, one with it), and
\* shutil.rmtree succeeds
PackageEnvs ==
    [mkdtemp : BOOLEAN,
     info : {"ok", "none", "raise"},
     packages : {"raise", "empty", "no_type", "ok"},
     download : {"conn", "status", "failed_json", "not_zip", "bad_zip", "no_html", "ok"},
     rmtree : BOOLEAN]

\* ghost.ws is <<>> while no temporary directory exists and <<files>>, the
\* set of the entries of the directory, while it does; ghost.exc is the
\* exception being propagated, ghost.ret the value returned
PackageInit ==
    /\ storageType = "local"
    /\ storage = EmptyStorage
    /\ \E env \in PackageEnvs :
           ghost = [env |-> env, pc |-> "mkdtemp", ws |-> <<>>, created |-> FALSE,
                    rmtree_calls |-> 0, exc |-> "", ret |-> ""]
    /\ nOps = 0
    /\ CacheIdle
    /\ OrchIdle

PackageFrame == UNCHANGED <<storageType, storage, nOps, cacheVars, orchVars>>

\* temp_dir = tempfile.mkdtemp(), before the try statement
PMkdtemp ==
    /\ ghost.pc = "mkdtemp"
    /\ ghost' = IF ghost.env.mkdtemp
                THEN [ghost EXCEPT !.ws = <<{}>>, !.created = TRUE, !.pc = "info"]
                ELSE [ghost EXCEPT !.exc = "OSError", !.pc = "raised"]
    /\ PackageFrame

PInfo ==
    /\ ghost.pc = "info"
    /\ ghost' = CASE ghost.env.info = "raise" -> [ghost EXCEPT !.exc = "HTTP Request Error", !.pc = "except"]
                  [] ghost.env.info = "none" -> [ghost EXCEPT !.exc = "Could not get problem info", !.pc = "except"]
                  [] OTHER -> [ghost EXCEPT !.pc = "packages"]
    /\ PackageFrame

PPackages ==
    /\ ghost.pc = "packages"
    /\ ghost' = CASE ghost.env.packages = "raise" -> [ghost EXCEPT !.exc = "HTTP Request Error", !.pc = "except"]
                  [] ghost.env.packages = "empty" -> [ghost EXCEPT !.exc = "No packages available", !.pc = "except"]
                  [] ghost.env.packages = "no_type" -> [ghost EXCEPT !.exc = "No standard package found", !.pc = "except"]
                  [] OTHER -> [ghost EXCEPT !.pc = "download"]
    /\ PackageFrame

\* requests.post, raise_for_status and the test of the first bytes; the
\* error payload of a response that is not an archive is read and dropped
PDownload ==
    /\ ghost.pc = "download"
    /\ ghost' = CASE ghost.env.download = "conn" -> [ghost EXCEPT !.exc = "ConnectionError", !.pc = "except"]
                  [] ghost.env.download = "status" -> [ghost EXCEPT !.exc = "HTTPError", !.pc = "except"]
                  [] ghost.env.download \in {"failed_json", "not_zip"} ->
                        [ghost EXCEPT !.exc = "Downloaded data is not a valid ZIP file", !.pc = "except"]
                  [] OTHER -> [ghost EXCEPT !.ws = <<{"problem.zip"}>>, !.pc = "extract"]
    /\ PackageFrame

\* the archive is extracted, problem.html is searched and read
PExtract ==
    /\ ghost.pc = "extract"
    /\ ghost' = CASE ghost.env.download = "bad_zip" ->
                        [ghost EXCEPT !.ws = <<{"problem.zip", "extracted"}>>,
                                      !.exc = "BadZipFile", !.pc = "except"]
                  [] ghost.env.download = "no_html" ->
                        [ghost EXCEPT !.ws = <<{"problem.zip", "extracted", "extracted/tests"}>>,
                                      !.exc = "problem.html not found", !.pc = "except"]
                  [] OTHER ->
                        [ghost EXCEPT !.ws = <<{"problem.zip", "extracted", "extracted/problem.html"}>>,
                                      !.ret = "problem.html", !.pc = "finally"]
    /\ PackageFrame

\* the exception leaves the function without passing the cleanup
PExcept_exits ==
    /\ ghost.pc = "except"
    /\ ghost' = [ghost EXCEPT !.exc = "Error downloading/extracting package", !.pc = "raised"]
    /\ PackageFrame

\* except Exception as e: raise Exception(...), which enters the finally clause
PExcept ==
    /\ ghost.pc = "except"
    /\ ghost' = [ghost EXCEPT !.exc = "Error downloading/extracting package", !.pc = "finally"]
    /\ PackageFrame

\* finally: shutil.rmtree(temp_dir), its own failure only logged
PFinally ==
    /\ ghost.pc = "finally"
    /\ ghost' = [ghost EXCEPT !.rmtree_calls = @ + 1,
                              !.ws = IF ghost.env.rmtree THEN <<>> ELSE @,
                              !.pc = IF ghost.exc # "" THEN "raised" ELSE "returned"]
    /\ PackageFrame

PackageNext == PMkdtemp \/ PInfo \/ PPackages \/ PDownload \/ PExtract \/ PExcept \/ PFinally

PackageSpec == PackageInit /\ [][PackageNext]_vars

\* C24: when download_and_extract_package has returned or raised, the
\* removal of the temporary directory it created has been attempted, once;
\* the directory is gone unless that removal itself failed; and a value is
\* returned only when no exception is propagated.
C24_WorkspaceAlwaysRemoved ==
    (ghost.pc \in {"returned", "raised"} /\ ghost.created) =>
        /\ ghost.rmtree_calls = 1
        /\ ghost.env.rmtree => ghost.ws = <<>>
        /\ (ghost.pc = "returned") <=> (ghost.exc = "")

\* an exit by exception after the archive was written: the directory held
\* files and is removed
C24_Witness ==
    /\ ghost.pc = "raised" /\ ghost.created
    /\ ghost.env.download = "no_html"
    /\ ghost.rmtree_calls = 1 /\ ghost.ws = <<>>

\* ===================================================================
\* SignSpec: _generate_api_sig on the same parameters given in two
\* insertion orders, with the same nonce and the same time
\* ===================================================================
\* a dict is the sequence of its <<key, value>> items in insertion order;
\* a text value is the sequence of its characters or runs of characters
ApiKey == <<"k3y">>
ApiSecret == <<"s3cret">>

\* the parameter names the client sends, in the order of their code points
ParamKeyOrder == <<"apiKey", "name", "problemId", "time", "type">>
KeyRank(key) == CHOOSE i \in 1..Len(ParamKeyOrder) : ParamKeyOrder[i] = key

\* d[key] = value: replaces the value of an existing key in place
DictSet(d, key, value) ==
    IF \E i \in 1..Len(d) : d[i][1] = key
    THEN [i \in 1..Len(d) |-> IF d[i][1] = key THEN <<key, value>> ELSE d[i]]
    ELSE Append(d, <<key, value>>)

\* the items are left in insertion order
sorted_unsorted(items) == items

\* sorted(params.items()): by key (the keys of a dict are distinct)
RECURSIVE sorted(_)
sorted(items) ==
    IF items = <<>> THEN <<>>
    ELSE LET rest == sorted(Tail(items))
             before == {i \in 1..Len(rest) : KeyRank(rest[i][1]) < KeyRank(Head(items)[1])}
         IN SubSeq(rest, 1, Cardinality(before)) \o <<Head(items)>>
            \o SubSeq(rest, Cardinality(before) + 1, Len(rest))

\* quote_plus: a space becomes "+", the reserved characters are escaped
quote_plus(text) ==
    [i \in 1..Len(text) |-> CASE text[i] = " " -> "+"
                              [] text[i] = "&" -> "%26"
                              [] text[i] = "/" -> "%2F"
                              [] text[i] = "=" -> "%3D"
                              [] OTHER -> text[i]]

\* urlencode(list of pairs): key=value joined by "&"
RECURSIVE urlencode(_)
urlencode(items) ==
    IF items = <<>> THEN <<>>
    ELSE quote_plus(<<Head(items)[1]>>) \o <<"=">> \o quote_plus(Head(items)[2])
         \o (IF Len(items) > 1 THEN <<"&">> \o urlencode(Tail(items)) ELSE <<>>)

\* hashlib.sha512(text).hexdigest(): one value per text
sha512_hexdigest(text) == [sha512 |-> text]

\* _generate_api_sig with the clock and the random prefix as arguments
generate_api_sig(method_name, params, now_time, rand_prefix) ==
    LET p1 == DictSet(params, "apiKey", ApiKey)
        p2 == DictSet(p1, "time", Str(now_time))
        sorted_params == sorted(p2)
        param_str == urlencode(sorted_params)
        to_hash == rand_prefix \o <<"/", method_name, "?">> \o param_str \o <<"#">> \o ApiSecret
    IN [api_sig |-> rand_prefix \o <<sha512_hexdigest(to_hash)>>, time |-> now_time]

SignItems == {<<"problemId", <<"7">>>>, <<"name", <<"a", " ", "b", "&", "c", ".", "cpp">>>>,
              <<"type", <<"source">>>>}

\* the dicts over a set of items: every insertion order of every subset
RECURSIVE OrdersOf(_)
OrdersOf(S) == IF S = {} THEN {<<>>}
               ELSE UNION {{<<x>> \o o : o \in OrdersOf(S \ {x})} : x \in S}

SignParams == UNION {OrdersOf(S) : S \in SUBSET SignItems}

Nonces == {<<"a", "b", "c", "1", "2", "3">>, <<"z", "9", "z", "9", "z", "9">>}
SignTimes == {1700000000, 1700000009}

SignInit ==
    /\ storageType = "local"
    /\ storage = EmptyStorage
    /\ \E m \in ApiMethods, ps \in SignParams, n \in Nonces, t \in SignTimes :
           ghost = [method |-> m, params |-> ps, nonce |-> n, time |-> t,
                    sig1 |-> <<>>, params2 |-> <<>>, sig2 |-> <<>>]
    /\ nOps = 0
    /\ CacheIdle
    /\ OrchIdle

\* a first signing
SSign ==
    /\ ghost.sig1 = <<>>
    /\ ghost' = [ghost EXCEPT !.sig1 = generate_api_sig(ghost.method, ghost.params, ghost.time,
                                                         ghost.nonce).api_sig]
    /\ UNCHANGED <<storageType, storage, nOps, cacheVars, orchVars>>

\* a second signing of the same parameters, given in any insertion order
SSignAgain ==
    /\ ghost.sig1 # <<>> /\ ghost.sig2 = <<>>
    /\ \E ps \in OrdersOf({ghost.params[i] : i \in 1..Len(ghost.params)}) :
           ghost' = [ghost EXCEPT !.params2 = ps,
                                  !.sig2 = generate_api_sig(ghost.method, ps, ghost.time, ghost.nonce).api_sig]
    /\ UNCHANGED <<storageType, storage, nOps, cacheVars, orchVars>>

SignNext == SSign \/ SSignAgain

SignSpec == SignInit /\ [][SignNext]_vars

\* the items of a set of parameters in ascending order of their names
RECURSIVE Ascending(_)
Ascending(S) ==
    IF S = {} THEN <<>>
    ELSE LET lo == CHOOSE x \in S : \A y \in S : KeyRank(x[1]) <= KeyRank(y[1])
         IN <<lo>> \o Ascending(S \ {lo})

\* what a verifier computes from the posted parameters and the signature:
\* the first six characters of the signature are the nonce
Recomputed(sig, method, posted) ==
    LET nonce == SubSeq(sig, 1, 6)
    IN nonce \o <<[sha512 |-> nonce \o <<"/", method, "?">> \o urlencode(Ascending(posted))
                                \o <<"#">> \o ApiSecret]>>

\* C25: two signings of the same method and parameter set with the same
\* nonce, time, key and secret give the same signature, whatever the order
\* in which the parameters were given, and the signature is the nonce
\* followed by the SHA-512 of nonce/method?params#secret over the posted
\* parameters (those given, apiKey and time) sorted by name.
C25_SignDeterministic ==
    LET posted == {ghost.params[i] : i \in 1..Len(ghost.params)}
                     \cup {<<"apiKey", ApiKey>>, <<"time", Str(ghost.time)>>}
    IN /\ ghost.sig1 # <<>> => ghost.sig1 = Recomputed(ghost.sig1, ghost.method, posted)
       /\ ghost.sig2 # <<>> => ghost.sig2 = ghost.sig1

\* three parameters signed in two different insertion orders
C25_Witness ==
    /\ ghost.sig2 # <<>>
    /\ Len(ghost.params) = 3
    /\ ghost.params2 # ghost.params
    /\ SubSeq(ghost.sig1, 1, 6) = ghost.nonce

\* ===================================================================
\* StorageSpec: purge of a prefix that holds no object
\* ===================================================================
\* the step is a completed empty_blob(container, k)
EmptiedBy(k) ==
    /\ storage' = empty_blob(storageType, storage, ContainerName, k, FALSE, {}).st
    /\ ~empty_blob(storageType, storage, ContainerName, k, FALSE, {}).raised
    /\ nOps' = nOps + 1
    /\ ghost'[k].purged /\ ~ghost'[k].prior /\ ghost'[k].written = {}

\* C26: on every backend a completed empty_blob on a problem key under
\* whose prefix there is no object leaves the storage as it was: the same
\* objects and, on the backends that have them, the same folders.
C26_EmptyPurgeIsNoop ==
    [][\A k \in ProblemKeys :
          (ObjectsUnder(storageType, storage, k) = {} /\ EmptiedBy(k)) => storage' = storage]_vars

\* ===================================================================
\* StorageSpec: folders of the Drive backend
\* ===================================================================
DriveFolders(drive) == {f \in drive : f.folder}

\* C27: on the Drive backend, after any sequence of upload_test_case,
\* upload_file and empty_blob calls, no two folders have the same name
\* under the same parent.
C27_OneFolderPerNameAndParent ==
    storageType = "gdrive" =>
        \A f, g \in DriveFolders(storage.drive) :
            (f.name = g.name /\ f.parent = g.parent) => f.id = g.id

\* three calls went through the same chain of folders, which exists once
C27_Witness ==
    /\ storageType = "gdrive"
    /\ nOps = MaxOps
    /\ Cardinality(DriveFolders(storage.drive)) = 3
    /\ Cardinality({f \in storage.drive : ~f.folder /\ f.name # <<>>}) >= 4

\* ===================================================================
\* DbSpec: the database upserts of the view applied one after the other:
\* migrate_to_db (problem, tags, sample rows) and
\* migrate_test_cases_to_db (test-case rows), each in a request of its own
\* that commits
\* ===================================================================
MaxDbOps == 3

\* request.POST.getlist('tags') and the stripped new_tag
TagLists == {<<>>, <<"dp", " ">>, <<"greedy", "dp">>}
NewTags == {"", "math"}

\* the resolved test-case lists: none, one, two samples, a list whose
\* first test could not be fetched, and one with a blank input in the middle
DbLists ==
    { <<>>,
      <<TC(1, "5\n", "10\n", TRUE)>>,
      <<TC(1, "6\n", "12\n", TRUE), TC(2, "7\n", "14\n", TRUE)>>,
      <<TC(1, "", "", TRUE), TC(2, "7\n", "14\n", TRUE)>>,
      <<TC(1, "5\n", "10\n", TRUE), TC(2, "\n", "3\n", FALSE), TC(3, "6\n", "12\n", FALSE)>> }

\* ghost: the last request (its kind, its tags, the list it resolved) and
\* the database before it
NoDbRequest == [op |-> "none", tags |-> <<>>, new_tag |-> "", cases |-> <<>>, before |-> EmptyDb]

DbInit ==
    /\ storageType = "local"
    /\ storage = EmptyStorage
    /\ ghost = NoDbRequest
    /\ nOps = 0
    /\ CacheIdle
    /\ runs = NoRuns /\ pc = "idle" /\ inp = NoInp /\ remote = NoRemote /\ ctx = NoCtx /\ loc = NoLoc
    /\ db \in {EmptyDb, MigratedDb}
    /\ snapshot = db
    /\ start = [storage |-> EmptyStorage, cache |-> NoBlobs]
    /\ ops = <<>>

DbFrame == UNCHANGED <<storageType, storage, cacheVars, runs, pc, inp, remote, ctx, loc, start, ops>>

DMigrateToDb ==
    /\ nOps < MaxDbOps
    /\ \E tags \in TagLists, new_tag \in NewTags, cases \in DbLists :
         /\ db' = UpsertSamples(ReplaceTags(UpsertProblem(db, "easy", "ncmp", Len(cases)), tags, new_tag), cases)
         /\ ghost' = [op |-> "db", tags |-> tags, new_tag |-> new_tag, cases |-> cases, before |-> db]
    /\ snapshot' = db'
    /\ nOps' = nOps + 1
    /\ DbFrame

DMigrateTestCases ==
    /\ nOps < MaxDbOps
    /\ db.problem # <<>>
    /\ \E cases \in DbLists :
         /\ db' = UpsertTestCases(db, cases)
         /\ ghost' = [op |-> "tcdb", tags |-> <<>>, new_tag |-> "", cases |-> cases, before |-> db]
    /\ snapshot' = db'
    /\ nOps' = nOps + 1
    /\ DbFrame

DbNext == DMigrateToDb \/ DMigrateTestCases

DbSpec == DbInit /\ [][DbNext]_vars

\* C28: after a database upsert of the problem, its tags are exactly the
\* non-blank selected tags of the request, stripped, and the new tag when
\* one is given, whatever tags it had before.
C28_TagsFullyReplaced ==
    ghost.op = "db" =>
        db.tags = ({RStrip(ghost.tags[i]) : i \in 1..Len(ghost.tags)} \cup {ghost.new_tag}) \ {""}

\* a tag attached before the request and not submitted is gone
C28_Witness ==
    /\ ghost.op = "db"
    /\ "greedy" \in ghost.before.tags
    /\ db.tags = {"dp", "math"}

\* ---------------------------------------------- DbSpec: the row upserts
\* the records of a list that are written: both sides non-blank
WrittenRecords(cases) == SelectSeq(cases, LAMBDA t : RStrip(t.input) # "" /\ RStrip(t.output) # "")

\* positions of the rows of `before` (creation order) in ascending order
ExistingPositions(rows) == SortedByOrder(rows, DOMAIN rows)

\* the k-th written record of `cases` holds row `pos` of `after`, with order k
HoldsRecord(after, pos, cases, k) ==
    /\ pos \in DOMAIN after
    /\ after[pos].input = RStrip(WrittenRecords(cases)[k].input)
    /\ after[pos].output = RStrip(WrittenRecords(cases)[k].output)
    /\ after[pos].order = k

\* the upsert of `cases` into the table `before` matched the k-th written
\* record with the k-th existing row and appended the records beyond
MatchedByOrderValue(before, after, cases) ==
    LET existing == ExistingPositions(before)
        written == WrittenRecords(cases)
    IN /\ Len(after) = IF Len(written) > Len(before) THEN Len(written) ELSE Len(before)
       /\ \A k \in 1..Len(written) :
             IF k <= Len(existing) THEN HoldsRecord(after, existing[k], cases, k)
             ELSE HoldsRecord(after, Len(before) + (k - Len(existing)), cases, k)

\* C29: in the upsert of the sample rows and of the test-case rows, the
\* record written with order value k updates the k-th existing row in
\* ascending order when there is one, and is created as a new row
\* otherwise, also when records of the new list are skipped.
C29_RowsMatchedByOrderValue ==
    /\ ghost.op = "db" =>
          MatchedByOrderValue(ghost.before.samples, db.samples,
                              SelectSeq(ghost.cases, LAMBDA t : t.is_sample))
    /\ ghost.op = "tcdb" => MatchedByOrderValue(ghost.before.tests, db.tests, ghost.cases)

\* the rows of `before` beyond the first n in ascending order are in
\* `after` at their place, unchanged, and no row is missing
SurplusKept(before, after, n) ==
    /\ Len(after) >= Len(before)
    /\ \A j \in (n + 1)..Len(before) :
          after[ExistingPositions(before)[j]] = before[ExistingPositions(before)[j]]

\* C30: an upsert deletes no row: the table it writes has at least the
\* rows it had, the existing rows beyond the length of the new list keep
\* their content and order value, and the other table is untouched.
C30_RowsNeverDeleted ==
    /\ ghost.op = "db" =>
          /\ SurplusKept(ghost.before.samples, db.samples,
                         Len(SelectSeq(ghost.cases, LAMBDA t : t.is_sample)))
          /\ db.tests = ghost.before.tests
    /\ ghost.op = "tcdb" =>
          /\ SurplusKept(ghost.before.tests, db.tests, Len(ghost.cases))
          /\ db.samples = ghost.before.samples

\* two test-case rows existed and a list of one record was upserted: the
\* second row is still there
C30_Witness ==
    /\ ghost.op = "tcdb"
    /\ Len(ghost.before.tests) = 2 /\ Len(ghost.cases) = 1
    /\ Len(db.tests) = 2
    /\ db.tests[1] # ghost.before.tests[1]
    /\ db.tests[2] = ghost.before.tests[2]


\* ------------------------------- Spec: the order of a run's storage operations
\* the storage operations of the log, in the order they were issued
StorageOps == SelectSeq(ops, LAMBDA e : e.op \in {"purge", "purge_fail", "put", "put_fail"})

\* a storage key names the checker source or the checker binary
IsCheckerKey(id) == id[Len(id)] \in {"custom_checker", "custom_checker.cpp"}

\* a storage key names the output object of a test case
IsOutputKey(id) == ~IsCheckerKey(id) /\ EndsWith(id, <<".a">>)

\* a storage key names the input object of a test case
IsInputKey(id) == ~IsCheckerKey(id) /\ ~EndsWith(id, <<".a">>)

\* the tokens of a storage key after its last "/"
NameOfKey(id) ==
    LET last == CHOOSE i \in 1..Len(id) :
                    id[i] = "/" /\ \A j \in (i + 1)..Len(id) : id[j] # "/"
    IN SubSeq(id, last + 1, Len(id))

\* the position a test-case key carries in its name
PositionOfKey(id) ==
    LET name == NameOfKey(id)
    IN IF IsOutputKey(id) THEN ParseInt(SubSeq(name, 1, Len(name) - 1))
       ELSE ParseInt(name)

\* C31: within one storage migration run the purge comes first and once,
\* the test cases are written in ascending position with the input object
\* directly before its output object, and the checker artifact is written
\* only after the last test-case write.
C31_StorageOpsOrdered ==
    LET so == StorageOps
    IN \A i \in 1..Len(so) :
         /\ so[i].op \in {"purge", "purge_fail"} <=> i = 1
         /\ so[i].op \in {"put", "put_fail"} => so[1].op = "purge"
         /\ so[i].op \in {"put", "put_fail"} /\ IsOutputKey(so[i].id) =>
               /\ so[i - 1].op = "put"
               /\ IsInputKey(so[i - 1].id)
               /\ PositionOfKey(so[i - 1].id) = PositionOfKey(so[i].id)
         /\ so[i].op = "put" /\ IsInputKey(so[i].id) /\ i < Len(so) =>
               /\ IsOutputKey(so[i + 1].id)
               /\ PositionOfKey(so[i + 1].id) = PositionOfKey(so[i].id)
         /\ \A j \in (i + 1)..Len(so) :
               /\ IsCheckerKey(so[i].id) => FALSE
               /\ so[i].op # "purge" /\ IsInputKey(so[i].id) /\ IsInputKey(so[j].id) =>
                     PositionOfKey(so[i].id) < PositionOfKey(so[j].id)

\* a finished run that purged, wrote two test cases and then the checker
C31_Witness ==
    /\ pc = "done" /\ loc.migrated
    /\ Len(StorageOps) = 6
    /\ StorageOps[1].op = "purge"
    /\ StorageOps[6].op = "put" /\ IsCheckerKey(StorageOps[6].id)


\* ------------------------------------ Spec: how a migration request ends
\* C32: every migration request ends with a rendered response, in one of
\* two states: after a failure rolled back, the database as before the
\* request and the migration-failed error in the response; otherwise
\* committed, without that error.
C32_RequestEndsRendered ==
    pc = "done" =>
        /\ loc.outcome = "rendered"
        /\ loc.raised => ctx.error = "migration_failed" /\ db = snapshot
        /\ ~loc.raised => ctx.error # "migration_failed"


\* C33: a rendered response whose context carries the migration-failed
\* error carries no success message of an earlier step, neither the
\* storage or test-case one nor the database one.
C33_ErrorWithoutSuccess ==
    pc = "done" /\ loc.outcome = "rendered" /\ ctx.error = "migration_failed" =>
        ctx.success = "" /\ ctx.db_success = ""


\* ------------------------------------------- CacheSpec: fetch during a store
\* C34: a fetch of ref made while a store of N cases for ref is under way,
\* the cache having held no entry of ref when the store began, is a miss
\* or returns all N cases.
C34_FetchDuringStoreAllOrNothing ==
    (fetched.done /\ fetched.during) =>
        \/ fetched.res = Miss
        \/ /\ fetched.res.hit
           /\ fetched.res.cases =
                 [i \in 1..Len(fetched.entry.cases) |-> CacheFields(fetched.entry.cases[i])]


\* ===================================================================
\* StorageSpec: what a purge leaves alone
\* ===================================================================
\* the step is an empty_blob(container, k), completed or failed part-way
PurgeStepOf(k) ==
    /\ nOps' = nOps + 1
    /\ \E fail \in BOOLEAN :
       \E partial \in (IF fail THEN PartialChoices(storageType, storage, k) ELSE {{}}) :
          LET r == empty_blob(storageType, storage, ContainerName, k, fail, partial)
          IN /\ storage' = r.st
             /\ IF r.raised THEN ghost' = [ghost EXCEPT ![k].purged = FALSE]
                ELSE ghost'[k].purged /\ ghost'[k].written = {}

\* C35: on every backend an empty_blob on problem key k, completed or
\* failed, leaves every object under the prefix of another problem key as
\* it was, also when k is a string prefix of that key (1 and 12).
C35_PurgeLeavesOtherProblems ==
    [][\A k \in ProblemKeys : \A q \in ProblemKeys \ {k} :
          PurgeStepOf(k) =>
             ObjectsUnder(storageType, storage', q) = ObjectsUnder(storageType, storage, q)]_vars

\* problem 1 purged of what it held while problem 12 holds objects
C35_Witness ==
    /\ ghost[1].purged /\ ghost[1].prior
    /\ ObjectsUnder(storageType, storage, 1) = {}
    /\ ObjectsUnder(storageType, storage, 12) # {}


IsRunFailure(e) ==
    \/ e.op = "purge_fail"
    \/ e.op = "put_fail" /\ ~IsCheckerKey(e.id)

\* C37: when the purge or the upload of a test case raises inside
\* migrate_to_cloud_storage, the exception leaves the run at once and the
\* request issues no storage operation after it: no later test case, no
\* checker artifact, and the upload loop and the checker step are not
\* entered again.
C37_NoWriteAfterFailure ==
    \A i \in 1..Len(ops) :
        IsRunFailure(ops[i]) =>
            /\ i < Len(ops) /\ ops[i + 1].op = "raise"
            /\ \A j \in (i + 1)..Len(ops) : ops[j].op \notin {"purge", "purge_fail", "put", "put_fail"}
            /\ pc \in {"except", "done"}
            /\ ~loc.migrated

\* a request ended after the output of the second test case failed to
\* upload, the first test case being written
C37_Witness ==
    /\ pc = "done" /\ loc.raised
    /\ \E i \in 2..Len(ops) :
          /\ ops[i].op = "put_fail" /\ IsOutputKey(ops[i].id) /\ PositionOfKey(ops[i].id) = 2
          /\ ops[i - 1].op = "put"
          /\ \E j \in 1..(i - 1) : ops[j].op = "put" /\ PositionOfKey(ops[j].id) = 1


\* ------------------------------------------ Spec: test-case objects in pairs
\* the names of the test-case objects under the prefix of the run
TestNames == {o.name : o \in TestObjects(storageType, storage, NamingId(loc.problem_id, PolygonId))}

\* C38: after a storage migration run that completed without error, the
\* test-case objects under the prefix come in pairs: an input object NN
\* exists exactly when the output object NN.a exists.
C38_TestObjectsInPairs ==
    loc.migrated =>
        \A name \in TestNames :
            IF EndsWith(name, <<".a">>)
            THEN SubSeq(name, 1, Len(name) - 1) \in TestNames
            ELSE name \o <<".a">> \in TestNames

\* a finished request whose run left the pairs of two test cases
C38_Witness ==
    /\ pc = "done" /\ loc.migrated /\ ~loc.raised
    /\ Cardinality(TestNames) = 4
    /\ <<"0", "2">> \in TestNames /\ <<"0", "2", ".a">> \in TestNames


\* ------------------------------------------- DbSpec: order values of the rows
\* no two rows of the table carry the same order value
DistinctOrders(rows) ==
    \A i \in DOMAIN rows : \A j \in DOMAIN rows : i # j => rows[i].order # rows[j].order

\* C39: after any sequence of sample and test-case row upserts, no two
\* sample rows and no two test-case rows of the problem carry the same
\* order value, also when records of a list were skipped.
C39_OrderValuesDistinct ==
    ghost.op \in {"db", "tcdb"} => DistinctOrders(db.samples) /\ DistinctOrders(db.tests)

====
